---- MODULE Spec2Model ----
(***************************************************************************)
(* Adafruit-GFX-Library: the rasterizer (Adafruit_GFX), the hardware sink  *)
(* (Adafruit_SPITFT) and the offscreen canvases (GFXcanvas1/8/16).         *)
(*                                                                         *)
(* A drawing operation runs to completion; it is modelled as one action    *)
(* that computes the sequence of sink events the code emits (startWrite,   *)
(* endWrite, setAddrWindow, bus writes, canvas drawPixel calls) and, on a  *)
(* canvas with a buffer, the buffer after the call.                        *)
(***************************************************************************)
EXTENDS Integers, Sequences, FiniteSets

VARIABLES kind, WIDTH, HEIGHT, _width, _height, rotation, pc, call, log,
          buffer, fault, ndraws, text, button

vars == <<kind, WIDTH, HEIGHT, _width, _height, rotation, pc, call, log,
          buffer, fault, ndraws, text, button>>

(***************************************************************************)
(* Bounds of the model.                                                    *)
(***************************************************************************)
ScreenW == 4
ScreenH == 3
Margin == 1

\* coordinates and extents handed to the drawing operations
Coord == (0 - Margin)..(ScreenW + Margin - 1)
Extent == (0 - Margin - 1)..(ScreenW + 2 * Margin)
\* int16_t values at the edge of the type, for the hardware sink's clipping
Edge16 == {-32768, -32767, 32767}
\* a few extents and coordinates, for the operations with many arguments
FewExtent == {0, 1, 2, ScreenW + Margin}
FewCoord == {0 - Margin, 1, ScreenW}
DrawColor == 258
\* radii of circles and rounded corners
MaxRadius == 3
Radius == -1..MaxRadius
\* radii of whole circles: the small ones and one of several loop rounds
CircleRadius == Radius \cup {10}
\* the two lowest rows of the int16_t range, and two columns
LowRows == {0 - 32768, 0 - 32767}
EdgeX == {0, 1}
\* the two highest columns of the int16_t range
HighColumns == {32766, 32767}
\* bitmap sizes and the byte a bitmap is filled with
BitmapExtent == {-1, 0, 1, 2, 9}
BitmapBytes == {0, 165, 255}
\* characters: positions, text sizes, and glyphs of the built-in font as
\* their 5 column bytes (blank, 'A', solid)
CharCoord == {-12, -6, 0, ScreenW - 1, ScreenW}
TextSizes == {1, 2}
Glyphs == {<<0, 0, 0, 0, 0>>, <<124, 18, 17, 18, 124>>,
           <<255, 255, 255, 255, 255>>}
\* raw size of the offscreen canvases, colors drawn on them, and the number
\* of drawing calls made on a canvas between two fillScreen calls
CanvasW == 9
CanvasH == 2
MaxDraws == 1
Colors == {0, 258}
\* text: the raw size of the screen it is printed on, the cursor positions
\* set, the characters ('\n', '\r', 'A', 'B', 'C') and the length of a string
TextW == 13
TextH == 9
MaxText == 3
TextStartX == {-2, 0, TextW - 5, TextW + 2}
TextStartY == {0, 2}
Chars == {10, 13, 65, 66, 67}
\* values of a color channel: the ends, and around the bits that are dropped
Channel == {0, 1, 3, 4, 7, 8, 129, 170, 251, 255}
\* buttons: the longest label handed over, and the bytes a button that was
\* never written may hold
MaxLabel == 10
LabelGarbage == {0, 88}
Labels == {[i \in 1..n |-> 65] : n \in {0, 2, 8, 9, MaxLabel}}
RotArgs == {0, 1, 2, 3, 4, 5, 6, 7, 254, 255}

(***************************************************************************)
(* Fixed-width integers.                                                   *)
(***************************************************************************)
I16(v) == ((v + 32768) % 65536) - 32768
\* conversion to uint32_t; a negative v becomes v + 2^32, which is beyond the
\* 32-bit integers of TLC, so evaluating it for a negative v is an error
U32(v) == IF v >= 0 THEN v ELSE ((v + 2147483647) + 2147483647) + 2
\* a / b of C, which truncates toward zero
CDiv(a, b) ==
  IF (a >= 0) = (b > 0) THEN (IF a >= 0 THEN a \div b ELSE (0 - a) \div (0 - b))
  ELSE 0 - ((IF a >= 0 THEN a ELSE 0 - a) \div (IF b > 0 THEN b ELSE 0 - b))
\* b & m, b | m and b & ~m for a mask m of one bit
Bit(b, m) == (b \div m) % 2
OrMask(b, m) == IF Bit(b, m) = 1 THEN b ELSE b + m
AndNotMask(b, m) == IF Bit(b, m) = 1 THEN b - m ELSE b

(***************************************************************************)
(* Sink events.                                                            *)
(***************************************************************************)
EvStart == [t |-> "start"]
EvEnd == [t |-> "end"]
EvWin(x, y, w, h) == [t |-> "win", x |-> x, y |-> y, w |-> w, h |-> h]
EvWrite16(c) == [t |-> "w16", c |-> c]
\* one block transfer of the 16-bit entries data, read from memory
EvTransfer(data) == [t |-> "xfer", data |-> data, n |-> Len(data)]
\* n calls of writePixels(pcolors + off + k * stride, len), k = 0..n-1; len is
\* the int16_t handed over, which the uint32_t parameter reads as len + 2^32
\* when it is negative
EvRows(off, stride, len, n) ==
  [t |-> "rows", off |-> off, stride |-> stride, len |-> len, n |-> n]
\* a division by zero at scanline y: the behaviour from here on is undefined
EvDivZero(y) == [t |-> "div0", y |-> y]
\* the loop counter has wrapped from 32767 to -32768 below its limit of 32767:
\* the loop never ends
EvForever == [t |-> "forever"]
\* the events of a call as far as they can be told: up to a division by zero
\* or to the wrap of a loop that never ends
Followed(l) ==
  LET stops == {i \in DOMAIN l : l[i].t \in {"div0", "forever"}}
  IN IF stops = {} THEN l
     ELSE SubSeq(l, 1, CHOOSE i \in stops : \A j \in stops : i <= j)
\* the call has not returned: it was trapped, or it loops forever
Stuck(l) == \E i \in DOMAIN l : l[i].t \in {"div0", "forever"}
EvDrawPixel(x, y, c, hit) ==
  [t |-> "px", x |-> x, y |-> y, c |-> c, hit |-> hit]
\* the cells of an address window
WindowCells(e) ==
  {<<i, j>> : i \in e.x..(e.x + e.w - 1), j \in e.y..(e.y + e.h - 1)}

(***************************************************************************)
(* Adafruit_SPITFT, the hardware sink.                                     *)
(***************************************************************************)
startWrite == <<EvStart>>
endWrite == <<EvEnd>>
setAddrWindow(x, y, w, h) == <<EvWin(x, y, w, h)>>
SPI_WRITE16(c) == <<EvWrite16(c)>>

SPITFT_writePixel(x, y, color) ==
  IF (x >= 0) /\ (x < _width) /\ (y >= 0) /\ (y < _height)
  THEN setAddrWindow(x, y, 1, 1) \o SPI_WRITE16(color)
  ELSE <<>>

\* a & b and a | b of unsigned values
RECURSIVE BitAnd(_, _)
BitAnd(a, b) ==
  IF a = 0 \/ b = 0 THEN 0
  ELSE (a % 2) * (b % 2) + 2 * BitAnd(a \div 2, b \div 2)

RECURSIVE BitOr(_, _)
BitOr(a, b) ==
  IF a = 0 THEN b
  ELSE IF b = 0 THEN a
  ELSE (IF a % 2 = 1 \/ b % 2 = 1 THEN 1 ELSE 0)
       + 2 * BitOr(a \div 2, b \div 2)

\* mutant: green keeps 5 bits, as red does
color565_Green5(red, green, blue) ==
  BitOr(BitOr(BitAnd(red, 248) * 256, BitAnd(green, 248) * 8), blue \div 8)
    % 65536

\* color565(red, green, blue): << is a product, >> a quotient, and the
\* result is converted to uint16_t
color565(red, green, blue) ==
  BitOr(BitOr(BitAnd(red, 248) * 256, BitAnd(green, 252) * 8), blue \div 8)
    % 65536

\* the pixels of one block transfer
SPI_BLOCKSIZE == 32
\* a buffer entry that the call has not written: its value is whatever an
\* earlier call or the start-up left there
Stale == -1
\* lengths of a run of one color: up to two whole blocks and one pixel more
LenArgs == 0..(2 * SPI_BLOCKSIZE + 1)

\* _spi_buffer after the loop that writes c to its first min(SPI_BLOCKSIZE,
\* len) entries; the entries are indexed from 1
_spi_buffer(c, len) ==
  [i \in 1..SPI_BLOCKSIZE |->
     IF i <= (IF len < SPI_BLOCKSIZE THEN len ELSE SPI_BLOCKSIZE) THEN c
     ELSE Stale]

\* mutant: the color is stored as it is, without the byte swap
writeColor_NoSwap(color, len) ==
  IF len = 0 THEN <<>>
  ELSE IF len <= 4 THEN [i \in 1..len |-> EvWrite16(color)]
  ELSE LET buf == _spi_buffer(color, len)
           n == len \div SPI_BLOCKSIZE
       IN [i \in 1..n |-> EvTransfer(buf)]
          \o <<EvTransfer(SubSeq(buf, 1, len - n * SPI_BLOCKSIZE))>>

\* len 1..4: one 16-bit write each; otherwise block transfers from the
\* buffer of byte-swapped colors, n whole buffers and then the first
\* len - n * SPI_BLOCKSIZE entries
writeColor(color, len) ==
  IF len = 0 THEN <<>>
  ELSE IF len <= 4 THEN [i \in 1..len |-> EvWrite16(color)]
  ELSE LET c == ((color % 256) * 256) + (color \div 256)
           buf == _spi_buffer(c, len)
           n == len \div SPI_BLOCKSIZE
       IN [i \in 1..n |-> EvTransfer(buf)]
          \o <<EvTransfer(SubSeq(buf, 1, len - n * SPI_BLOCKSIZE))>>

writeFillRectPreclipped(x, y, w, h, color) ==
  setAddrWindow(x, y, w, h) \o writeColor(color, U32(w * h))

SPITFT_drawPixel(x, y, color) ==
  IF (x >= 0) /\ (x < _width) /\ (y >= 0) /\ (y < _height)
  THEN startWrite \o setAddrWindow(x, y, 1, 1) \o SPI_WRITE16(color) \o endWrite
  ELSE <<>>

\* mutant: the right edge is clipped against the unclipped origin
SPITFT_fillRect_ClipOrder(x, y, w, h, color) ==
  IF ~(w # 0 /\ h # 0) THEN <<>> ELSE
  LET xa == IF w < 0 THEN I16(x + w + 1) ELSE x
      wa == IF w < 0 THEN I16(0 - w) ELSE w
  IN IF ~(xa < _width) THEN <<>> ELSE
  LET ya == IF h < 0 THEN I16(y + h + 1) ELSE y
      ha == IF h < 0 THEN I16(0 - h) ELSE h
  IN IF ~(ya < _height) THEN <<>> ELSE
  LET x2 == xa + wa - 1
  IN IF ~(x2 >= 0) THEN <<>> ELSE
  LET y2 == ya + ha - 1
  IN IF ~(y2 >= 0) THEN <<>> ELSE
  LET xb == IF xa < 0 THEN 0 ELSE xa
      wb == IF xa < 0 THEN I16(x2 + 1) ELSE wa
      yb == IF ya < 0 THEN 0 ELSE ya
      hb == IF ya < 0 THEN I16(y2 + 1) ELSE ha
      wc == IF x2 >= _width THEN I16(_width - xa) ELSE wb
      hc == IF y2 >= _height THEN I16(_height - ya) ELSE hb
  IN startWrite \o writeFillRectPreclipped(xb, yb, wc, hc, color) \o endWrite

SPITFT_fillRect(x, y, w, h, color) ==
  IF ~(w # 0 /\ h # 0) THEN <<>> ELSE
  LET xa == IF w < 0 THEN I16(x + w + 1) ELSE x
      wa == IF w < 0 THEN I16(0 - w) ELSE w
  IN IF ~(xa < _width) THEN <<>> ELSE
  LET ya == IF h < 0 THEN I16(y + h + 1) ELSE y
      ha == IF h < 0 THEN I16(0 - h) ELSE h
  IN IF ~(ya < _height) THEN <<>> ELSE
  LET x2 == xa + wa - 1
  IN IF ~(x2 >= 0) THEN <<>> ELSE
  LET y2 == ya + ha - 1
  IN IF ~(y2 >= 0) THEN <<>> ELSE
  LET xb == IF xa < 0 THEN 0 ELSE xa
      wb == IF xa < 0 THEN I16(x2 + 1) ELSE wa
      yb == IF ya < 0 THEN 0 ELSE ya
      hb == IF ya < 0 THEN I16(y2 + 1) ELSE ha
      wc == IF x2 >= _width THEN I16(_width - xb) ELSE wb
      hc == IF y2 >= _height THEN I16(_height - yb) ELSE hb
  IN startWrite \o writeFillRectPreclipped(xb, yb, wc, hc, color) \o endWrite

SPITFT_writeFillRect(x, y, w, h, color) ==
  IF ~(w # 0 /\ h # 0) THEN <<>> ELSE
  LET xa == IF w < 0 THEN I16(x + w + 1) ELSE x
      wa == IF w < 0 THEN I16(0 - w) ELSE w
  IN IF ~(xa < _width) THEN <<>> ELSE
  LET ya == IF h < 0 THEN I16(y + h + 1) ELSE y
      ha == IF h < 0 THEN I16(0 - h) ELSE h
  IN IF ~(ya < _height) THEN <<>> ELSE
  LET x2 == xa + wa - 1
  IN IF ~(x2 >= 0) THEN <<>> ELSE
  LET y2 == ya + ha - 1
  IN IF ~(y2 >= 0) THEN <<>> ELSE
  LET xb == IF xa < 0 THEN 0 ELSE xa
      wb == IF xa < 0 THEN I16(x2 + 1) ELSE wa
      yb == IF ya < 0 THEN 0 ELSE ya
      hb == IF ya < 0 THEN I16(y2 + 1) ELSE ha
      wc == IF x2 >= _width THEN I16(_width - xb) ELSE wb
      hc == IF y2 >= _height THEN I16(_height - yb) ELSE hb
  IN writeFillRectPreclipped(xb, yb, wc, hc, color)

SPITFT_writeFastHLine(x, y, w, color) ==
  IF ~((y >= 0) /\ (y < _height) /\ w # 0) THEN <<>> ELSE
  LET xa == IF w < 0 THEN I16(x + w + 1) ELSE x
      wa == IF w < 0 THEN I16(0 - w) ELSE w
  IN IF ~(xa < _width) THEN <<>> ELSE
  LET x2 == xa + wa - 1
  IN IF ~(x2 >= 0) THEN <<>> ELSE
  LET xb == IF xa < 0 THEN 0 ELSE xa
      wb == IF xa < 0 THEN I16(x2 + 1) ELSE wa
      wc == IF x2 >= _width THEN I16(_width - xb) ELSE wb
  IN writeFillRectPreclipped(xb, y, wc, 1, color)

SPITFT_writeFastVLine(x, y, h, color) ==
  IF ~((x >= 0) /\ (x < _width) /\ h # 0) THEN <<>> ELSE
  LET ya == IF h < 0 THEN I16(y + h + 1) ELSE y
      ha == IF h < 0 THEN I16(0 - h) ELSE h
  IN IF ~(ya < _height) THEN <<>> ELSE
  LET y2 == ya + ha - 1
  IN IF ~(y2 >= 0) THEN <<>> ELSE
  LET yb == IF ya < 0 THEN 0 ELSE ya
      hb == IF ya < 0 THEN I16(y2 + 1) ELSE ha
      hc == IF y2 >= _height THEN I16(_height - yb) ELSE hb
  IN writeFillRectPreclipped(x, yb, 1, hc, color)

SPITFT_drawFastHLine(x, y, w, color) ==
  IF ~((y >= 0) /\ (y < _height) /\ w # 0) THEN <<>> ELSE
  LET xa == IF w < 0 THEN I16(x + w + 1) ELSE x
      wa == IF w < 0 THEN I16(0 - w) ELSE w
  IN IF ~(xa < _width) THEN <<>> ELSE
  LET x2 == xa + wa - 1
  IN IF ~(x2 >= 0) THEN <<>> ELSE
  LET xb == IF xa < 0 THEN 0 ELSE xa
      wb == IF xa < 0 THEN I16(x2 + 1) ELSE wa
      wc == IF x2 >= _width THEN I16(_width - xb) ELSE wb
  IN startWrite \o writeFillRectPreclipped(xb, y, wc, 1, color) \o endWrite

SPITFT_drawFastVLine(x, y, h, color) ==
  IF ~((x >= 0) /\ (x < _width) /\ h # 0) THEN <<>> ELSE
  LET ya == IF h < 0 THEN I16(y + h + 1) ELSE y
      ha == IF h < 0 THEN I16(0 - h) ELSE h
  IN IF ~(ya < _height) THEN <<>> ELSE
  LET y2 == ya + ha - 1
  IN IF ~(y2 >= 0) THEN <<>> ELSE
  LET yb == IF ya < 0 THEN 0 ELSE ya
      hb == IF ya < 0 THEN I16(y2 + 1) ELSE ha
      hc == IF y2 >= _height THEN I16(_height - yb) ELSE hb
  IN startWrite \o writeFillRectPreclipped(x, yb, 1, hc, color) \o endWrite

SPITFT_drawRGBBitmap(x, y, w, h) ==
  LET x2 == I16(x + w - 1)
      y2 == I16(y + h - 1)
  IN IF (x >= _width) \/ (y >= _height) \/ (x2 < 0) \/ (y2 < 0) THEN <<>> ELSE
  LET saveW == w
      wa == IF x < 0 THEN I16(w + x) ELSE w
      bx1 == IF x < 0 THEN I16(0 - x) ELSE 0
      xa == IF x < 0 THEN 0 ELSE x
      ha == IF y < 0 THEN I16(h + y) ELSE h
      by1 == IF y < 0 THEN I16(0 - y) ELSE 0
      ya == IF y < 0 THEN 0 ELSE y
      wb == IF x2 >= _width THEN I16(_width - xa) ELSE wa
      hb == IF y2 >= _height THEN I16(_height - ya) ELSE ha
      \* while (h--): h rows, or, from a negative h, down through the
      \* wrap of int16_t
      rows == IF hb >= 0 THEN hb ELSE 65536 + hb
  IN startWrite \o setAddrWindow(xa, ya, wb, hb)
     \o (IF rows = 0 THEN <<>>
         ELSE <<EvRows(by1 * saveW + bx1, saveW, wb, rows)>>)
     \o endWrite


(***************************************************************************)
(* Adafruit_GFX, the rasterizer, with its virtual dispatch: the hardware   *)
(* sink overrides the write* primitives, a canvas inherits the defaults.   *)
(***************************************************************************)
\* GFXcanvas*::drawPixel as the rasterizer sees it: one call per pixel, which
\* reaches the buffer (hit) unless the position is off the logical screen
Canvas_drawPixel(x, y, color) ==
  <<EvDrawPixel(x, y, color,
                ~((x < 0) \/ (y < 0) \/ (x >= _width) \/ (y >= _height)))>>

drawPixel(x, y, color) ==
  IF kind = "tft" THEN SPITFT_drawPixel(x, y, color)
  ELSE Canvas_drawPixel(x, y, color)

writePixel(x, y, color) ==
  IF kind = "tft" THEN SPITFT_writePixel(x, y, color)
  ELSE drawPixel(x, y, color)

RECURSIVE writeLineLoop(_, _, _, _, _, _, _, _, _)
writeLineLoop(x0, y0, x1, err, dx, dy, ystep, steep, color) ==
  IF ~(x0 <= x1) THEN <<>>
  ELSE LET e1 == I16(err - dy)
       IN (IF steep THEN writePixel(y0, x0, color)
                    ELSE writePixel(x0, y0, color))
          \o (IF I16(x0 + 1) < x0 THEN <<EvForever>>
              ELSE writeLineLoop(I16(x0 + 1),
                                 IF e1 < 0 THEN I16(y0 + ystep) ELSE y0,
                                 x1,
                                 IF e1 < 0 THEN I16(e1 + dx) ELSE e1,
                                 dx, dy, ystep, steep, color))

Abs(v) == IF v < 0 THEN 0 - v ELSE v

\* mutant: the endpoints are not put in ascending order of the major axis
writeLine_NoSwap(x0, y0, x1, y1, color) ==
  LET steep == Abs(y1 - y0) > Abs(x1 - x0)
      xa0 == IF steep THEN y0 ELSE x0
      ya0 == IF steep THEN x0 ELSE y0
      xa1 == IF steep THEN y1 ELSE x1
      ya1 == IF steep THEN x1 ELSE y1
      dx == I16(xa1 - xa0)
      dy == I16(Abs(ya1 - ya0))
      err == I16(dx \div 2)
      ystep == IF ya0 < ya1 THEN 1 ELSE -1
  IN writeLineLoop(xa0, ya0, xa1, err, dx, dy, ystep, steep, color)

writeLine(x0, y0, x1, y1, color) ==
  LET steep == Abs(y1 - y0) > Abs(x1 - x0)
      xa0 == IF steep THEN y0 ELSE x0
      ya0 == IF steep THEN x0 ELSE y0
      xa1 == IF steep THEN y1 ELSE x1
      ya1 == IF steep THEN x1 ELSE y1
      xb0 == IF xa0 > xa1 THEN xa1 ELSE xa0
      yb0 == IF xa0 > xa1 THEN ya1 ELSE ya0
      xb1 == IF xa0 > xa1 THEN xa0 ELSE xa1
      yb1 == IF xa0 > xa1 THEN ya0 ELSE ya1
      dx == I16(xb1 - xb0)
      dy == I16(Abs(yb1 - yb0))
      err == I16(dx \div 2)
      ystep == IF yb0 < yb1 THEN 1 ELSE -1
  IN writeLineLoop(xb0, yb0, xb1, err, dx, dy, ystep, steep, color)

GFX_drawFastVLine(x, y, h, color) ==
  startWrite \o writeLine(x, y, x, I16(y + h - 1), color) \o endWrite

GFX_drawFastHLine(x, y, w, color) ==
  startWrite \o writeLine(x, y, I16(x + w - 1), y, color) \o endWrite

drawFastVLine(x, y, h, color) ==
  IF kind = "tft" THEN SPITFT_drawFastVLine(x, y, h, color)
  ELSE GFX_drawFastVLine(x, y, h, color)

drawFastHLine(x, y, w, color) ==
  IF kind = "tft" THEN SPITFT_drawFastHLine(x, y, w, color)
  ELSE GFX_drawFastHLine(x, y, w, color)

\* mutant: the hardware sink inherits the default, which calls drawFastVLine
writeFastVLine_Default(x, y, h, color) == drawFastVLine(x, y, h, color)

writeFastVLine(x, y, h, color) ==
  IF kind = "tft" THEN SPITFT_writeFastVLine(x, y, h, color)
  ELSE drawFastVLine(x, y, h, color)

writeFastHLine(x, y, w, color) ==
  IF kind = "tft" THEN SPITFT_writeFastHLine(x, y, w, color)
  ELSE drawFastHLine(x, y, w, color)

RECURSIVE GFX_fillRectLoop(_, _, _, _, _, _)
GFX_fillRectLoop(i, x, y, w, h, color) ==
  IF ~(i < x + w) THEN <<>>
  ELSE writeFastVLine(i, y, h, color)
       \o GFX_fillRectLoop(I16(i + 1), x, y, w, h, color)

GFX_fillRect(x, y, w, h, color) ==
  startWrite \o GFX_fillRectLoop(x, x, y, w, h, color) \o endWrite

fillRect(x, y, w, h, color) ==
  IF kind = "tft" THEN SPITFT_fillRect(x, y, w, h, color)
  ELSE GFX_fillRect(x, y, w, h, color)

writeFillRect(x, y, w, h, color) ==
  IF kind = "tft" THEN SPITFT_writeFillRect(x, y, w, h, color)
  ELSE fillRect(x, y, w, h, color)

fillScreen(color) == fillRect(0, 0, _width, _height, color)

\* mutant: the oblique line is drawn outside any transaction
drawLine_NoTransaction(x0, y0, x1, y1, color) ==
  IF x0 = x1
  THEN LET ya == IF y0 > y1 THEN y1 ELSE y0
           yb == IF y0 > y1 THEN y0 ELSE y1
       IN drawFastVLine(x0, ya, I16(yb - ya + 1), color)
  ELSE IF y0 = y1
  THEN LET xa == IF x0 > x1 THEN x1 ELSE x0
           xb == IF x0 > x1 THEN x0 ELSE x1
       IN drawFastHLine(xa, y0, I16(xb - xa + 1), color)
  ELSE writeLine(x0, y0, x1, y1, color)

drawLine(x0, y0, x1, y1, color) ==
  IF x0 = x1
  THEN LET ya == IF y0 > y1 THEN y1 ELSE y0
           yb == IF y0 > y1 THEN y0 ELSE y1
       IN drawFastVLine(x0, ya, I16(yb - ya + 1), color)
  ELSE IF y0 = y1
  THEN LET xa == IF x0 > x1 THEN x1 ELSE x0
           xb == IF x0 > x1 THEN x0 ELSE x1
       IN drawFastHLine(xa, y0, I16(xb - xa + 1), color)
  ELSE startWrite \o writeLine(x0, y0, x1, y1, color) \o endWrite

drawRect(x, y, w, h, color) ==
  startWrite
  \o writeFastHLine(x, y, w, color)
  \o writeFastHLine(x, I16(y + h - 1), w, color)
  \o writeFastVLine(x, y, h, color)
  \o writeFastVLine(I16(x + w - 1), y, h, color)
  \o endWrite

drawTriangle(x0, y0, x1, y1, x2, y2, color) ==
  drawLine(x0, y0, x1, y1, color)
  \o drawLine(x1, y1, x2, y2, color)
  \o drawLine(x2, y2, x0, y0, color)

\* one round of the midpoint circle loop: <<f, ddF_x, ddF_y, x, y>> after it
CircleStep(f, ddF_x, ddF_y, x, y) ==
  LET y1 == IF f >= 0 THEN I16(y - 1) ELSE y
      ddF_y1 == IF f >= 0 THEN I16(ddF_y + 2) ELSE ddF_y
      f1 == IF f >= 0 THEN I16(f + ddF_y1) ELSE f
      x1 == I16(x + 1)
      ddF_x1 == I16(ddF_x + 2)
  IN <<I16(f1 + ddF_x1), ddF_x1, ddF_y1, x1, y1>>

RECURSIVE drawCircleLoop(_, _, _, _, _, _, _, _)
drawCircleLoop(x0, y0, f, ddF_x, ddF_y, x, y, color) ==
  IF ~(x < y) THEN <<>> ELSE
  LET s == CircleStep(f, ddF_x, ddF_y, x, y)
      xn == s[4]
      yn == s[5]
  IN writePixel(I16(x0 + xn), I16(y0 + yn), color)
     \o writePixel(I16(x0 - xn), I16(y0 + yn), color)
     \o writePixel(I16(x0 + xn), I16(y0 - yn), color)
     \o writePixel(I16(x0 - xn), I16(y0 - yn), color)
     \o writePixel(I16(x0 + yn), I16(y0 + xn), color)
     \o writePixel(I16(x0 - yn), I16(y0 + xn), color)
     \o writePixel(I16(x0 + yn), I16(y0 - xn), color)
     \o writePixel(I16(x0 - yn), I16(y0 - xn), color)
     \o drawCircleLoop(x0, y0, s[1], s[2], s[3], xn, yn, color)

\* mutant: the leftmost point of the circle is not plotted
drawCircle_NoLeft(x0, y0, r, color) ==
  startWrite
  \o writePixel(x0, I16(y0 + r), color)
  \o writePixel(x0, I16(y0 - r), color)
  \o writePixel(I16(x0 + r), y0, color)
  \o drawCircleLoop(x0, y0, I16(1 - r), 1, I16((0 - 2) * r), 0, r, color)
  \o endWrite

drawCircle(x0, y0, r, color) ==
  startWrite
  \o writePixel(x0, I16(y0 + r), color)
  \o writePixel(x0, I16(y0 - r), color)
  \o writePixel(I16(x0 + r), y0, color)
  \o writePixel(I16(x0 - r), y0, color)
  \o drawCircleLoop(x0, y0, I16(1 - r), 1, I16((0 - 2) * r), 0, r, color)
  \o endWrite

RECURSIVE drawCircleHelperLoop(_, _, _, _, _, _, _, _, _)
drawCircleHelperLoop(x0, y0, f, ddF_x, ddF_y, x, y, cornername, color) ==
  IF ~(x < y) THEN <<>> ELSE
  LET s == CircleStep(f, ddF_x, ddF_y, x, y)
      xn == s[4]
      yn == s[5]
  IN (IF Bit(cornername, 4) = 1
      THEN writePixel(I16(x0 + xn), I16(y0 + yn), color)
           \o writePixel(I16(x0 + yn), I16(y0 + xn), color)
      ELSE <<>>)
     \o (IF Bit(cornername, 2) = 1
         THEN writePixel(I16(x0 + xn), I16(y0 - yn), color)
              \o writePixel(I16(x0 + yn), I16(y0 - xn), color)
         ELSE <<>>)
     \o (IF Bit(cornername, 8) = 1
         THEN writePixel(I16(x0 - yn), I16(y0 + xn), color)
              \o writePixel(I16(x0 - xn), I16(y0 + yn), color)
         ELSE <<>>)
     \o (IF Bit(cornername, 1) = 1
         THEN writePixel(I16(x0 - yn), I16(y0 - xn), color)
              \o writePixel(I16(x0 - xn), I16(y0 - yn), color)
         ELSE <<>>)
     \o drawCircleHelperLoop(x0, y0, s[1], s[2], s[3], xn, yn, cornername,
                             color)

drawCircleHelper(x0, y0, r, cornername, color) ==
  drawCircleHelperLoop(x0, y0, I16(1 - r), 1, I16((0 - 2) * r), 0, r,
                       cornername, color)

\* mutant: the span at x is emitted even once x has passed y
RECURSIVE fillCircleHelperLoop_Unchecked(_, _, _, _, _, _, _, _, _, _, _, _)
fillCircleHelperLoop_Unchecked(x0, y0, f, ddF_x, ddF_y, x, y, px, py, corners, delta, color) ==
  IF ~(x < y) THEN <<>> ELSE
  LET s == CircleStep(f, ddF_x, ddF_y, x, y)
      xn == s[4]
      yn == s[5]
  IN (IF Bit(corners, 1) = 1
      THEN writeFastVLine(I16(x0 + xn), I16(y0 - yn),
                          I16(2 * yn + delta), color)
      ELSE <<>>)
     \o (IF Bit(corners, 2) = 1
         THEN writeFastVLine(I16(x0 - xn), I16(y0 - yn),
                             I16(2 * yn + delta), color)
         ELSE <<>>)
     \o (IF yn # py
         THEN (IF Bit(corners, 1) = 1
               THEN writeFastVLine(I16(x0 + py), I16(y0 - px),
                                   I16(2 * px + delta), color)
               ELSE <<>>)
              \o (IF Bit(corners, 2) = 1
                  THEN writeFastVLine(I16(x0 - py), I16(y0 - px),
                                      I16(2 * px + delta), color)
                  ELSE <<>>)
         ELSE <<>>)
     \o fillCircleHelperLoop_Unchecked(x0, y0, s[1], s[2], s[3], xn, yn, xn,
                                       IF yn # py THEN yn ELSE py, corners,
                                       delta, color)

\* delta is the caller's delta + 1
RECURSIVE fillCircleHelperLoop(_, _, _, _, _, _, _, _, _, _, _, _)
fillCircleHelperLoop(x0, y0, f, ddF_x, ddF_y, x, y, px, py, corners, delta, color) ==
  IF ~(x < y) THEN <<>> ELSE
  LET s == CircleStep(f, ddF_x, ddF_y, x, y)
      xn == s[4]
      yn == s[5]
  IN (IF xn < yn + 1
      THEN (IF Bit(corners, 1) = 1
            THEN writeFastVLine(I16(x0 + xn), I16(y0 - yn),
                                I16(2 * yn + delta), color)
            ELSE <<>>)
           \o (IF Bit(corners, 2) = 1
               THEN writeFastVLine(I16(x0 - xn), I16(y0 - yn),
                                   I16(2 * yn + delta), color)
               ELSE <<>>)
      ELSE <<>>)
     \o (IF yn # py
         THEN (IF Bit(corners, 1) = 1
               THEN writeFastVLine(I16(x0 + py), I16(y0 - px),
                                   I16(2 * px + delta), color)
               ELSE <<>>)
              \o (IF Bit(corners, 2) = 1
                  THEN writeFastVLine(I16(x0 - py), I16(y0 - px),
                                      I16(2 * px + delta), color)
                  ELSE <<>>)
         ELSE <<>>)
     \o fillCircleHelperLoop(x0, y0, s[1], s[2], s[3], xn, yn, xn,
                             IF yn # py THEN yn ELSE py, corners, delta, color)

fillCircleHelper(x0, y0, r, corners, delta, color) ==
  fillCircleHelperLoop(x0, y0, I16(1 - r), 1, I16((0 - 2) * r), 0, r, 0, r,
                       corners, I16(delta + 1), color)

fillCircle(x0, y0, r, color) ==
  startWrite
  \o writeFastVLine(x0, I16(y0 - r), I16(2 * r + 1), color)
  \o fillCircleHelper(x0, y0, r, 3, 0, color)
  \o endWrite

drawRoundRect(x, y, w, h, r0, color) ==
  LET max_radius == I16(CDiv(IF w < h THEN w ELSE h, 2))
      r == IF r0 > max_radius THEN max_radius ELSE r0
  IN startWrite
     \o writeFastHLine(I16(x + r), y, I16(w - 2 * r), color)
     \o writeFastHLine(I16(x + r), I16(y + h - 1), I16(w - 2 * r), color)
     \o writeFastVLine(x, I16(y + r), I16(h - 2 * r), color)
     \o writeFastVLine(I16(x + w - 1), I16(y + r), I16(h - 2 * r), color)
     \o drawCircleHelper(I16(x + r), I16(y + r), r, 1, color)
     \o drawCircleHelper(I16(x + w - r - 1), I16(y + r), r, 2, color)
     \o drawCircleHelper(I16(x + w - r - 1), I16(y + h - r - 1), r, 4, color)
     \o drawCircleHelper(I16(x + r), I16(y + h - r - 1), r, 8, color)
     \o endWrite

fillRoundRect(x, y, w, h, r0, color) ==
  LET max_radius == I16(CDiv(IF w < h THEN w ELSE h, 2))
      r == IF r0 > max_radius THEN max_radius ELSE r0
  IN startWrite
     \o writeFillRect(I16(x + r), y, I16(w - 2 * r), h, color)
     \o fillCircleHelper(I16(x + w - r - 1), I16(y + r), r, 1,
                         I16(h - 2 * r - 1), color)
     \o fillCircleHelper(I16(x + r), I16(y + r), r, 2, I16(h - 2 * r - 1),
                         color)
     \o endWrite

\* the scanlines y..last of fillTriangle between the edge from (xa, .) with
\* slope dxa / dya and the edge from (xb, .) with slope dxb / dyb
RECURSIVE fillTriangleLoop(_, _, _, _, _, _, _, _, _, _, _)
fillTriangleLoop(y, last, xa, sa, dxa, dya, xb, sb, dxb, dyb, color) ==
  IF ~(y <= last) THEN <<>> ELSE
  IF dya = 0 \/ dyb = 0 THEN <<EvDivZero(y)>> ELSE
  LET a0 == I16(xa + CDiv(sa, dya))
      b0 == I16(xb + CDiv(sb, dyb))
      a == IF a0 > b0 THEN b0 ELSE a0
      b == IF a0 > b0 THEN a0 ELSE b0
  IN writeFastHLine(a, y, I16(b - a + 1), color)
     \o fillTriangleLoop(I16(y + 1), last, xa, sa + dxa, dxa, dya,
                         xb, sb + dxb, dxb, dyb, color)

\* the vertices sorted by y as fillTriangle's three swaps sort them
SortByY(p0, p1, p2) ==
  LET a0 == IF p0[2] > p1[2] THEN p1 ELSE p0
      a1 == IF p0[2] > p1[2] THEN p0 ELSE p1
      b1 == IF a1[2] > p2[2] THEN p2 ELSE a1
      b2 == IF a1[2] > p2[2] THEN a1 ELSE p2
      c0 == IF a0[2] > b1[2] THEN b1 ELSE a0
      c1 == IF a0[2] > b1[2] THEN a0 ELSE b1
  IN <<c0, c1, b2>>

\* mutant: the flat triangle spans its first two vertices only
fillTriangle_TwoVertices(xi0, yi0, xi1, yi1, xi2, yi2, color) ==
  LET p == SortByY(<<xi0, yi0>>, <<xi1, yi1>>, <<xi2, yi2>>)
      x0 == p[1][1]
      y0 == p[1][2]
      x1 == p[2][1]
      y1 == p[2][2]
      x2 == p[3][1]
      y2 == p[3][2]
  IN IF y0 = y2
     THEN LET a1 == IF x1 < x0 THEN x1 ELSE x0
              b1 == IF x1 < x0 THEN x0 ELSE IF x1 > x0 THEN x1 ELSE x0
              a == a1
              b == b1
          IN startWrite \o writeFastHLine(a, y0, I16(b - a + 1), color)
             \o endWrite
     ELSE
       LET dx01 == I16(x1 - x0)
           dy01 == I16(y1 - y0)
           dx02 == I16(x2 - x0)
           dy02 == I16(y2 - y0)
           dx12 == I16(x2 - x1)
           dy12 == I16(y2 - y1)
           last == IF y1 = y2 THEN y1 ELSE I16(y1 - 1)
           \* y after the first loop
           ym == IF y0 <= last THEN I16(last + 1) ELSE y0
           n == IF y0 <= last THEN last - y0 + 1 ELSE 0
       IN startWrite
          \o fillTriangleLoop(y0, last, x0, 0, dx01, dy01, x0, 0, dx02, dy02,
                              color)
          \o fillTriangleLoop(ym, y2, x1, dx12 * (ym - y1), dx12, dy12,
                              x0, dx02 * (ym - y0), dx02, dy02, color)
          \o endWrite

fillTriangle(xi0, yi0, xi1, yi1, xi2, yi2, color) ==
  LET p == SortByY(<<xi0, yi0>>, <<xi1, yi1>>, <<xi2, yi2>>)
      x0 == p[1][1]
      y0 == p[1][2]
      x1 == p[2][1]
      y1 == p[2][2]
      x2 == p[3][1]
      y2 == p[3][2]
  IN IF y0 = y2
     THEN LET a1 == IF x1 < x0 THEN x1 ELSE x0
              b1 == IF x1 < x0 THEN x0 ELSE IF x1 > x0 THEN x1 ELSE x0
              a == IF x2 < a1 THEN x2 ELSE a1
              b == IF x2 < a1 THEN b1 ELSE IF x2 > b1 THEN x2 ELSE b1
          IN startWrite \o writeFastHLine(a, y0, I16(b - a + 1), color)
             \o endWrite
     ELSE
       LET dx01 == I16(x1 - x0)
           dy01 == I16(y1 - y0)
           dx02 == I16(x2 - x0)
           dy02 == I16(y2 - y0)
           dx12 == I16(x2 - x1)
           dy12 == I16(y2 - y1)
           last == IF y1 = y2 THEN y1 ELSE I16(y1 - 1)
           \* y after the first loop
           ym == IF y0 <= last THEN I16(last + 1) ELSE y0
           n == IF y0 <= last THEN last - y0 + 1 ELSE 0
       IN startWrite
          \o fillTriangleLoop(y0, last, x0, 0, dx01, dy01, x0, 0, dx02, dy02,
                              color)
          \o fillTriangleLoop(ym, y2, x1, dx12 * (ym - y1), dx12, dy12,
                              x0, dx02 * (ym - y0), dx02, dy02, color)
          \o endWrite

\* the pixels of row j of a bitmap from column i on; byte is the shift
\* register of the code
RECURSIVE drawBitmapRow(_, _, _, _, _, _, _, _, _, _)
drawBitmapRow(x, y, bitmap, byteWidth, w, j, i, byte, color, bg) ==
  IF ~(i < w) THEN <<>> ELSE
  LET b == IF i % 8 # 0 THEN (byte * 2) % 256
           ELSE bitmap[j * byteWidth + (i \div 8) + 1]
  IN (IF Bit(b, 128) = 1 THEN writePixel(I16(x + i), y, color)
      ELSE IF bg.opaque THEN writePixel(I16(x + i), y, bg.color)
      ELSE <<>>)
     \o drawBitmapRow(x, y, bitmap, byteWidth, w, j, i + 1, b, color, bg)

\* the shift register after a row of w columns read from row j
RECURSIVE RowByte(_, _, _, _, _, _)
RowByte(bitmap, byteWidth, w, j, i, byte) ==
  IF ~(i < w) THEN byte
  ELSE RowByte(bitmap, byteWidth, w, j, i + 1,
               IF i % 8 # 0 THEN (byte * 2) % 256
               ELSE bitmap[j * byteWidth + (i \div 8) + 1])

RECURSIVE drawBitmapRows(_, _, _, _, _, _, _, _, _, _)
drawBitmapRows(x, y, bitmap, byteWidth, w, h, j, byte, color, bg) ==
  IF ~(j < h) THEN <<>>
  ELSE drawBitmapRow(x, y, bitmap, byteWidth, w, j, 0, byte, color, bg)
       \o drawBitmapRows(x, I16(y + 1), bitmap, byteWidth, w, h, j + 1,
                         RowByte(bitmap, byteWidth, w, j, 0, byte), color, bg)

\* drawBitmap without and with a background color; bitmap is the array,
\* indexed from 1
drawBitmap(x, y, bitmap, w, h, color) ==
  startWrite
  \o drawBitmapRows(x, y, bitmap, I16(CDiv(w + 7, 8)), w, h, 0, 0, color,
                    [opaque |-> FALSE, color |-> 0])
  \o endWrite

drawBitmapBg(x, y, bitmap, w, h, color, bg) ==
  startWrite
  \o drawBitmapRows(x, y, bitmap, I16(CDiv(w + 7, 8)), w, h, 0, 0, color,
                    [opaque |-> TRUE, color |-> bg])
  \o endWrite

\* the 8 cells of column i of a glyph of the built-in font, from row j on;
\* line is the column byte shifted right j times
RECURSIVE drawCharColumn(_, _, _, _, _, _, _, _)
drawCharColumn(x, y, i, j, line, color, bg, size) ==
  IF ~(j < 8) THEN <<>> ELSE
  (IF line % 2 = 1
   THEN (IF size = 1 THEN writePixel(I16(x + i), I16(y + j), color)
         ELSE writeFillRect(I16(x + i * size), I16(y + j * size), size, size,
                            color))
   ELSE IF bg # color
   THEN (IF size = 1 THEN writePixel(I16(x + i), I16(y + j), bg)
         ELSE writeFillRect(I16(x + i * size), I16(y + j * size), size, size,
                            bg))
   ELSE <<>>)
  \o drawCharColumn(x, y, i, j + 1, line \div 2, color, bg, size)

RECURSIVE drawCharColumns(_, _, _, _, _, _, _)
drawCharColumns(x, y, glyph, i, color, bg, size) ==
  IF ~(i < 5) THEN <<>>
  ELSE drawCharColumn(x, y, i, 0, glyph[i + 1], color, bg, size)
       \o drawCharColumns(x, y, glyph, i + 1, color, bg, size)

\* drawChar with the built-in font (gfxFont is null); glyph is the 5 column
\* bytes font[c * 5 .. c * 5 + 4] of the character
drawChar(x, y, glyph, color, bg, size) ==
  IF (x >= _width) \/ (y >= _height) \/ ((x + 6 * size - 1) < 0)
     \/ ((y + 8 * size - 1) < 0)
  THEN <<>>
  ELSE startWrite
       \o drawCharColumns(x, y, glyph, 0, color, bg, size)
       \o (IF bg # color
           THEN (IF size = 1 THEN writeFastVLine(I16(x + 5), y, 8, bg)
                 ELSE writeFillRect(I16(x + 5 * size), y, size, 8 * size, bg))
           ELSE <<>>)
       \o endWrite

(***************************************************************************)
(* Text: fonts, write and the measuring pass.                              *)
(***************************************************************************)
\* the 5 column bytes font[c * 5 .. c * 5 + 4] of the built-in font
ClassicGlyph(c) ==
  CASE c = 65 -> <<124, 18, 17, 18, 124>>
    [] c = 66 -> <<255, 255, 255, 255, 255>>
    [] OTHER -> <<0, 0, 0, 0, 0>>

\* a custom font (GFXfont) of two glyphs (GFXglyph): 'A' with a bitmap of
\* 2 x 2 cells and 'B' with none, as a space has; bitmap is indexed from 1
CustomFont ==
  [first |-> 65, last |-> 66, yAdvance |-> 4,
   bitmap |-> <<208>>,
   glyph |-> <<[bitmapOffset |-> 0, width |-> 2, height |-> 2,
                xAdvance |-> 3, xOffset |-> -1, yOffset |-> -2],
               [bitmapOffset |-> 1, width |-> 0, height |-> 0,
                xAdvance |-> 2, xOffset |-> 0, yOffset |-> 0]>>]

\* the cells of a glyph from cell k on, row by row; the bits of the bitmap
\* are consumed one per cell, most significant first, from byte bo on
RECURSIVE drawCharCustomLoop(_, _, _, _, _, _)
drawCharCustomLoop(x, y, g, k, color, size) ==
  IF ~(k < g.width * g.height) THEN <<>> ELSE
  LET xx == k % g.width
      yy == k \div g.width
      bits == CustomFont.bitmap[g.bitmapOffset + (k \div 8) + 1]
      xo16 == IF size > 1 THEN g.xOffset ELSE 0
      yo16 == IF size > 1 THEN g.yOffset ELSE 0
  IN (IF Bit(bits, 2 ^ (7 - (k % 8))) = 1
      THEN (IF size = 1
            THEN writePixel(I16(x + g.xOffset + xx), I16(y + g.yOffset + yy),
                            color)
            ELSE writeFillRect(I16(x + (xo16 + xx) * size),
                               I16(y + (yo16 + yy) * size), size, size, color))
      ELSE <<>>)
     \o drawCharCustomLoop(x, y, g, k + 1, color, size)

\* drawChar with a custom font (gfxFont is set)
drawCharCustom(x, y, c, color, size) ==
  startWrite
  \o drawCharCustomLoop(x, y, CustomFont.glyph[c - CustomFont.first + 1], 0,
                        color, size)
  \o endWrite

\* write with the line break taken whatever the wrap flag says
write_AlwaysWrap(t, c) ==
  IF c = 10
  THEN [cursor_x |-> 0, cursor_y |-> I16(t.cursor_y + t.textsize * 8),
        log |-> <<>>, ret |-> 1]
  ELSE IF c # 13
  THEN LET brk == (t.cursor_x + t.textsize * 6) > _width
           cx == IF brk THEN 0 ELSE t.cursor_x
           cy == IF brk THEN I16(t.cursor_y + t.textsize * 8) ELSE t.cursor_y
       IN [cursor_x |-> I16(cx + t.textsize * 6), cursor_y |-> cy,
           log |-> drawChar(cx, cy, ClassicGlyph(c), t.textcolor,
                            t.textbgcolor, t.textsize),
           ret |-> 1]
  ELSE [cursor_x |-> t.cursor_x, cursor_y |-> t.cursor_y, log |-> <<>>,
        ret |-> 1]

\* write(c) on the text fields t: the cursor after it, what it draws and
\* what it returns
write(t, c) ==
  IF ~t.gfxFont
  THEN IF c = 10
       THEN [cursor_x |-> 0, cursor_y |-> I16(t.cursor_y + t.textsize * 8),
             log |-> <<>>, ret |-> 1]
       ELSE IF c # 13
       THEN LET brk == t.wrap /\ ((t.cursor_x + t.textsize * 6) > _width)
                cx == IF brk THEN 0 ELSE t.cursor_x
                cy == IF brk THEN I16(t.cursor_y + t.textsize * 8)
                      ELSE t.cursor_y
            IN [cursor_x |-> I16(cx + t.textsize * 6), cursor_y |-> cy,
                log |-> drawChar(cx, cy, ClassicGlyph(c), t.textcolor,
                                 t.textbgcolor, t.textsize),
                ret |-> 1]
       ELSE [cursor_x |-> t.cursor_x, cursor_y |-> t.cursor_y, log |-> <<>>,
             ret |-> 1]
  ELSE IF c = 10
       THEN [cursor_x |-> 0,
             cursor_y |-> I16(t.cursor_y + t.textsize * CustomFont.yAdvance),
             log |-> <<>>, ret |-> 1]
       ELSE IF c # 13 /\ (c >= CustomFont.first) /\ (c <= CustomFont.last)
       THEN LET g == CustomFont.glyph[c - CustomFont.first + 1]
                draws == (g.width > 0) /\ (g.height > 0)
                brk == draws /\ t.wrap
                       /\ ((t.cursor_x + t.textsize * (g.xOffset + g.width))
                             > _width)
                cx == IF brk THEN 0 ELSE t.cursor_x
                cy == IF brk
                      THEN I16(t.cursor_y + t.textsize * CustomFont.yAdvance)
                      ELSE t.cursor_y
            IN [cursor_x |-> I16(cx + g.xAdvance * t.textsize),
                cursor_y |-> cy,
                log |-> IF draws
                        THEN drawCharCustom(cx, cy, c, t.textcolor, t.textsize)
                        ELSE <<>>,
                ret |-> 1]
       ELSE [cursor_x |-> t.cursor_x, cursor_y |-> t.cursor_y, log |-> <<>>,
             ret |-> 1]

\* charBounds(c, &x, &y, &minx, &miny, &maxx, &maxy) with the text fields t;
\* m holds the six values pointed at
charBounds(t, c, m) ==
  IF t.gfxFont
  THEN IF c = 10
       THEN [m EXCEPT !.x = 0,
                      !.y = I16(m.y + t.textsize * CustomFont.yAdvance)]
       ELSE IF c # 13 /\ (c >= CustomFont.first) /\ (c <= CustomFont.last)
       THEN LET g == CustomFont.glyph[c - CustomFont.first + 1]
                brk == t.wrap
                       /\ ((m.x + ((g.xOffset + g.width) * t.textsize))
                             > _width)
                x == IF brk THEN 0 ELSE m.x
                y == IF brk THEN I16(m.y + t.textsize * CustomFont.yAdvance)
                     ELSE m.y
                ts == t.textsize
                x1 == I16(x + g.xOffset * ts)
                y1 == I16(y + g.yOffset * ts)
                x2 == I16(x1 + g.width * ts - 1)
                y2 == I16(y1 + g.height * ts - 1)
            IN [x |-> I16(x + g.xAdvance * ts), y |-> y,
                minx |-> IF x1 < m.minx THEN x1 ELSE m.minx,
                miny |-> IF y1 < m.miny THEN y1 ELSE m.miny,
                maxx |-> IF x2 > m.maxx THEN x2 ELSE m.maxx,
                maxy |-> IF y2 > m.maxy THEN y2 ELSE m.maxy]
       ELSE m
  ELSE IF c = 10
       THEN [m EXCEPT !.x = 0, !.y = I16(m.y + t.textsize * 8)]
       ELSE IF c # 13
       THEN LET brk == t.wrap /\ ((m.x + t.textsize * 6) > _width)
                x == IF brk THEN 0 ELSE m.x
                y == IF brk THEN I16(m.y + t.textsize * 8) ELSE m.y
                x2 == x + t.textsize * 6 - 1
                y2 == y + t.textsize * 8 - 1
            IN [x |-> I16(x + t.textsize * 6), y |-> y,
                minx |-> IF x < m.minx THEN x ELSE m.minx,
                miny |-> IF y < m.miny THEN y ELSE m.miny,
                maxx |-> IF x2 > m.maxx THEN I16(x2) ELSE m.maxx,
                maxy |-> IF y2 > m.maxy THEN I16(y2) ELSE m.maxy]
       ELSE m

\* the loop of getTextBounds over the characters of str
RECURSIVE getTextBoundsLoop(_, _, _)
getTextBoundsLoop(t, str, m) ==
  IF str = <<>> THEN m
  ELSE getTextBoundsLoop(t, Tail(str), charBounds(t, Head(str), m))

\* getTextBounds(str, x, y, &x1, &y1, &w, &h): the four values returned
getTextBounds(t, str, x, y) ==
  LET m == getTextBoundsLoop(t, str,
                             [x |-> x, y |-> y, minx |-> _width,
                              miny |-> _height, maxx |-> -1, maxy |-> -1])
  IN [x1 |-> IF m.maxx >= m.minx THEN m.minx ELSE x,
      w |-> IF m.maxx >= m.minx THEN (m.maxx - m.minx + 1) % 65536 ELSE 0,
      y1 |-> IF m.maxy >= m.miny THEN m.miny ELSE y,
      h |-> IF m.maxy >= m.miny THEN (m.maxy - m.miny + 1) % 65536 ELSE 0]

(***************************************************************************)
(* Adafruit_GFX_Button. A button is its fields; p and was are the argument *)
(* of the last press and the state before it, kept for the properties.     *)
(***************************************************************************)
\* the size of the array _label
LabelSize == 10

\* Adafruit_GFX_Button::Adafruit_GFX_Button: only _gfx, currstate and
\* laststate are initialised; every byte of _label holds g, which is 0 for a
\* button of static storage and anything otherwise
FreshButton(g) ==
  [_gfx |-> FALSE, _x1 |-> 0, _y1 |-> 0, _w |-> 0, _h |-> 0, _textsize |-> 0,
   _outlinecolor |-> 0, _fillcolor |-> 0, _textcolor |-> 0,
   _label |-> [i \in 1..LabelSize |-> g],
   currstate |-> FALSE, laststate |-> FALSE, p |-> FALSE, was |-> FALSE]

\* strncpy(dst, src, n): the characters of src, then NULs, n bytes in all
strncpy(dst, src, n) ==
  [i \in DOMAIN dst |->
     IF i <= n THEN (IF i <= Len(src) THEN src[i] ELSE 0) ELSE dst[i]]

initButtonUL(b, x1, y1, w, h, outline, fill, textcolor, label, textsize) ==
  [b EXCEPT !._x1 = x1, !._y1 = y1, !._w = w, !._h = h,
            !._outlinecolor = outline, !._fillcolor = fill,
            !._textcolor = textcolor, !._textsize = textsize, !._gfx = TRUE,
            !._label = strncpy(b._label, label, 9)]

initButton(b, x, y, w, h, outline, fill, textcolor, label, textsize) ==
  initButtonUL(b, I16(x - (w \div 2)), I16(y - (h \div 2)), w, h, outline,
               fill, textcolor, label, textsize)

\* mutant: the state before the call is not kept
press_NoLast(b, p) ==
  [b EXCEPT !.currstate = p, !.p = p, !.was = b.currstate]

press(b, p) ==
  [b EXCEPT !.laststate = b.currstate, !.currstate = p,
            !.p = p, !.was = b.currstate]

isPressed(b) == b.currstate
justPressed(b) == b.currstate /\ ~b.laststate
justReleased(b) == ~b.currstate /\ b.laststate

contains(b, x, y) ==
  (x >= b._x1) /\ (x < I16(b._x1 + b._w)) /\ (y >= b._y1)
    /\ (y < I16(b._y1 + b._h))

\* whether the array holds a NUL, and the characters before the first one
Terminated(a) == \E i \in DOMAIN a : a[i] = 0
RECURSIVE UpToNul(_, _)
UpToNul(a, i) ==
  IF i \notin DOMAIN a \/ a[i] = 0 THEN <<>>
  ELSE <<a[i]>> \o UpToNul(a, i + 1)

\* print(str): write for one character after the other; t is the text fields
RECURSIVE print(_, _)
print(t, str) ==
  IF str = <<>> THEN [t |-> t, log |-> <<>>]
  ELSE LET r == write(t, Head(str))
           rest == print([t EXCEPT !.cursor_x = r.cursor_x,
                                   !.cursor_y = r.cursor_y], Tail(str))
       IN [t |-> rest.t, log |-> r.log \o rest.log]

\* drawButton(inverted) with the text fields t of the display; str is what
\* strlen and print read as the label: the array up to its NUL, or, without
\* one, the array and the bytes behind it up to the next NUL
drawButton(b, t, inverted, str) ==
  LET fill == IF inverted THEN b._textcolor ELSE b._fillcolor
      outline == b._outlinecolor
      txt == IF inverted THEN b._fillcolor ELSE b._textcolor
      r == ((IF b._w < b._h THEN b._w ELSE b._h) \div 4) % 256
      t1 == [t EXCEPT
               !.cursor_x = I16(b._x1 + (b._w \div 2)
                                  - (Len(str) * 3 * b._textsize)),
               !.cursor_y = I16(b._y1 + (b._h \div 2) - (4 * b._textsize)),
               !.textcolor = txt, !.textbgcolor = txt,
               !.textsize = IF b._textsize > 0 THEN b._textsize ELSE 1]
      out == print(t1, str)
  IN [t |-> out.t,
      log |-> fillRoundRect(b._x1, b._y1, b._w, b._h, r, fill)
              \o drawRoundRect(b._x1, b._y1, b._w, b._h, r, outline)
              \o out.log]

(***************************************************************************)
(* The state machine of the rasterizer over a sink.                        *)
(***************************************************************************)
NoCall == [op |-> "none"]
\* the buffer pointer of a canvas whose allocation failed, and of a sink
\* that has no buffer
NoBuffer == [null |-> TRUE, mem |-> <<>>]
\* the text fields after construction; gfxFont tells whether a custom font is
\* set; (x0, y0) is the cursor that was last set, str the characters
\* written since, and drawn the screen cells they wrote
NoText ==
  [cursor_x |-> 0, cursor_y |-> 0, textcolor |-> 65535, textbgcolor |-> 65535,
   textsize |-> 1, wrap |-> TRUE, gfxFont |-> FALSE,
   x0 |-> 0, y0 |-> 0, str |-> <<>>, drawn |-> {}]

\* Adafruit_GFX::Adafruit_GFX, for a hardware sink or a canvas
Init ==
  /\ kind \in {"tft", "canvas"}
  /\ WIDTH = ScreenW
  /\ HEIGHT = ScreenH
  /\ _width = ScreenW
  /\ _height = ScreenH
  /\ rotation = 0
  /\ pc = "idle"
  /\ call = NoCall
  /\ log = <<>>
  /\ buffer = NoBuffer
  /\ fault = FALSE
  /\ ndraws = 0
  /\ text = NoText
  /\ button = FreshButton(0)

\* a drawing call that leaves the object's fields alone; pc is "done" when it
\* has returned and "stuck" when it never does
Draws(c, events) ==
  /\ pc = "idle"
  /\ pc' = IF Stuck(events) THEN "stuck" ELSE "done"
  /\ call' = c
  /\ log' = Followed(events)
  /\ UNCHANGED <<kind, WIDTH, HEIGHT, _width, _height, rotation, buffer, fault,
               ndraws, text,
               button>>

\* the synchronous call has returned to the caller
Return ==
  /\ pc = "done"
  /\ pc' = "idle"
  /\ call' = NoCall
  /\ log' = <<>>
  /\ UNCHANGED <<kind, WIDTH, HEIGHT, _width, _height, rotation, buffer, fault,
               ndraws, text,
               button>>

\* mutant: the dimensions are swapped for the even rotations
setRotation_Swapped ==
  /\ pc = "idle"
  /\ \E r \in RotArgs :
    /\ rotation' = r % 4
    /\ _width' = IF (r % 4) \in {0, 2} THEN HEIGHT ELSE WIDTH
    /\ _height' = IF (r % 4) \in {0, 2} THEN WIDTH ELSE HEIGHT
    /\ pc' = "done"
    /\ call' = [op |-> "setRotation", r |-> r]
    /\ log' = <<>>
    /\ UNCHANGED <<kind, WIDTH, HEIGHT, buffer, fault, ndraws, text,
               button>>

setRotation ==
  /\ pc = "idle"
  /\ \E r \in RotArgs :
    /\ rotation' = r % 4
    /\ _width' = IF (r % 4) \in {0, 2} THEN WIDTH ELSE HEIGHT
    /\ _height' = IF (r % 4) \in {0, 2} THEN HEIGHT ELSE WIDTH
    /\ pc' = "done"
    /\ call' = [op |-> "setRotation", r |-> r]
    /\ log' = <<>>
    /\ UNCHANGED <<kind, WIDTH, HEIGHT, buffer, fault, ndraws, text,
               button>>

DoFillRect ==
  /\ pc = "idle"
  /\ \E x \in Coord, y \in Coord, w \in Extent, h \in Extent :
    Draws([op |-> "fillRect", x |-> x, y |-> y, w |-> w, h |-> h],
          fillRect(x, y, w, h, DrawColor))

\* the hardware sink's clipping at the edges of int16_t
DoFillRectEdge ==
  /\ pc = "idle"
  /\ kind = "tft"
  /\ \E x \in Coord \cup Edge16, w \in Extent \cup Edge16,
     y \in {-1, 0}, h \in {-1, 2} :
    /\ (x \in Edge16 \/ w \in Edge16)
    /\ \E swap \in BOOLEAN :
         LET c == IF swap
                  THEN [op |-> "fillRect", x |-> y, y |-> x, w |-> h, h |-> w]
                  ELSE [op |-> "fillRect", x |-> x, y |-> y, w |-> w, h |-> h]
         IN Draws(c, fillRect(c.x, c.y, c.w, c.h, DrawColor))

DoFillScreen ==
  /\ pc = "idle"
  /\ Draws([op |-> "fillScreen"], fillScreen(DrawColor))

DoDrawPixel ==
  /\ pc = "idle"
  /\ \E x \in Coord, y \in Coord :
       Draws([op |-> "drawPixel", x |-> x, y |-> y],
             drawPixel(x, y, DrawColor))

DoDrawFastHLine ==
  /\ pc = "idle"
  /\ \E x \in Coord, y \in Coord, w \in Extent :
       Draws([op |-> "drawFastHLine", x |-> x, y |-> y, w |-> w],
             drawFastHLine(x, y, w, DrawColor))

DoDrawFastVLine ==
  /\ pc = "idle"
  /\ \E x \in Coord, y \in Coord, h \in Extent :
       Draws([op |-> "drawFastVLine", x |-> x, y |-> y, h |-> h],
             drawFastVLine(x, y, h, DrawColor))

DoDrawLine ==
  /\ pc = "idle"
  /\ \E x0 \in Coord, y0 \in Coord, x1 \in Coord, y1 \in Coord :
       Draws([op |-> "drawLine", x0 |-> x0, y0 |-> y0, x1 |-> x1, y1 |-> y1],
             drawLine(x0, y0, x1, y1, DrawColor))

DoWriteLine ==
  /\ pc = "idle"
  /\ \E x0 \in Coord, y0 \in Coord, x1 \in Coord, y1 \in Coord :
       Draws([op |-> "writeLine", x0 |-> x0, y0 |-> y0, x1 |-> x1, y1 |-> y1],
             writeLine(x0, y0, x1, y1, DrawColor))

\* lines that end on the two highest columns an int16_t can name
DoWriteLineEdge ==
  /\ pc = "idle"
  /\ \E x0 \in HighColumns, y0 \in EdgeX, x1 \in HighColumns, y1 \in EdgeX :
       Draws([op |-> "writeLine", x0 |-> x0, y0 |-> y0, x1 |-> x1, y1 |-> y1],
             writeLine(x0, y0, x1, y1, DrawColor))

DoDrawRect ==
  /\ pc = "idle"
  /\ \E x \in Coord, y \in Coord, w \in FewExtent, h \in FewExtent :
       Draws([op |-> "drawRect", x |-> x, y |-> y, w |-> w, h |-> h],
             drawRect(x, y, w, h, DrawColor))

DoDrawTriangle ==
  /\ pc = "idle"
  /\ \E x0 \in FewCoord, y0 \in FewCoord, x1 \in FewCoord, y1 \in FewCoord,
        x2 \in FewCoord, y2 \in FewCoord :
       Draws([op |-> "drawTriangle", x0 |-> x0, y0 |-> y0, x1 |-> x1,
              y1 |-> y1, x2 |-> x2, y2 |-> y2],
             drawTriangle(x0, y0, x1, y1, x2, y2, DrawColor))

\* Adafruit_SPITFT::drawRGBBitmap, which exists on the hardware sink only
DoDrawRGBBitmap ==
  /\ pc = "idle"
  /\ kind = "tft"
  /\ \E x \in Coord, y \in Coord, w \in Extent, h \in FewExtent \cup {-1} :
       Draws([op |-> "drawRGBBitmap", x |-> x, y |-> y, w |-> w, h |-> h],
             SPITFT_drawRGBBitmap(x, y, w, h))

\* bitmaps as wide or as high as int16_t allows
DoDrawRGBBitmapEdge ==
  /\ pc = "idle"
  /\ kind = "tft"
  /\ \E x \in Coord, y \in {-1, 0}, w \in {32766, 32767}, h \in {1, 2} :
       \E swap \in BOOLEAN :
         LET c == IF swap
                  THEN [op |-> "drawRGBBitmap", x |-> y, y |-> x, w |-> h,
                        h |-> w]
                  ELSE [op |-> "drawRGBBitmap", x |-> x, y |-> y, w |-> w,
                        h |-> h]
         IN Draws(c, SPITFT_drawRGBBitmap(c.x, c.y, c.w, c.h))

DoDrawCircle ==
  /\ pc = "idle"
  /\ \E x0 \in Coord, y0 \in Coord, r \in CircleRadius :
       Draws([op |-> "drawCircle", x0 |-> x0, y0 |-> y0, r |-> r],
             drawCircle(x0, y0, r, DrawColor))

\* the quarter-circle operations, which are public too
DoDrawCircleHelper ==
  /\ pc = "idle"
  /\ \E x0 \in FewCoord, y0 \in FewCoord, r \in {0, 1, MaxRadius},
        cornername \in {1, 2, 4, 8} :
       Draws([op |-> "drawCircleHelper", x0 |-> x0, y0 |-> y0, r |-> r,
              cornername |-> cornername],
             drawCircleHelper(x0, y0, r, cornername, DrawColor))

DoFillCircleHelper ==
  /\ pc = "idle"
  /\ \E x0 \in FewCoord, y0 \in FewCoord, r \in {0, 1, MaxRadius},
        corners \in {1, 2, 3}, delta \in {0, 1} :
       Draws([op |-> "fillCircleHelper", x0 |-> x0, y0 |-> y0, r |-> r,
              corners |-> corners, delta |-> delta],
             fillCircleHelper(x0, y0, r, corners, delta, DrawColor))

DoFillCircle ==
  /\ pc = "idle"
  /\ \E x0 \in Coord, y0 \in Coord, r \in Radius :
       Draws([op |-> "fillCircle", x0 |-> x0, y0 |-> y0, r |-> r],
             fillCircle(x0, y0, r, DrawColor))

DoDrawRoundRect ==
  /\ pc = "idle"
  /\ \E x \in FewCoord, y \in FewCoord, w \in FewExtent, h \in FewExtent,
        r \in Radius :
       Draws([op |-> "drawRoundRect", x |-> x, y |-> y, w |-> w, h |-> h,
              r |-> r],
             drawRoundRect(x, y, w, h, r, DrawColor))

DoFillRoundRect ==
  /\ pc = "idle"
  /\ \E x \in FewCoord, y \in FewCoord, w \in FewExtent, h \in FewExtent,
        r \in Radius :
       Draws([op |-> "fillRoundRect", x |-> x, y |-> y, w |-> w, h |-> h,
              r |-> r],
             fillRoundRect(x, y, w, h, r, DrawColor))

DoFillTriangle ==
  /\ pc = "idle"
  /\ \E x0 \in FewCoord, y0 \in FewCoord, x1 \in FewCoord, y1 \in FewCoord,
        x2 \in FewCoord, y2 \in FewCoord :
       Draws([op |-> "fillTriangle", x0 |-> x0, y0 |-> y0, x1 |-> x1,
              y1 |-> y1, x2 |-> x2, y2 |-> y2],
             fillTriangle(x0, y0, x1, y1, x2, y2, DrawColor))

\* triangles with vertices on the two lowest rows an int16_t can name
DoFillTriangleEdge ==
  /\ pc = "idle"
  /\ \E x0 \in EdgeX, y0 \in LowRows, x1 \in EdgeX, y1 \in LowRows,
        x2 \in EdgeX, y2 \in LowRows :
       Draws([op |-> "fillTriangle", x0 |-> x0, y0 |-> y0, x1 |-> x1,
              y1 |-> y1, x2 |-> x2, y2 |-> y2],
             fillTriangle(x0, y0, x1, y1, x2, y2, DrawColor))

\* the bitmap has every byte alike; it is drawn without or with a background
DoDrawBitmap ==
  /\ pc = "idle"
  /\ \E x \in FewCoord, y \in FewCoord, w \in BitmapExtent,
        h \in BitmapExtent, b \in BitmapBytes, opaque \in BOOLEAN :
       LET n == (IF w > 0 THEN (w + 7) \div 8 ELSE 0) * (IF h > 0 THEN h ELSE 0)
           bitmap == [k \in 1..n |-> b]
       IN Draws([op |-> "drawBitmap", x |-> x, y |-> y, w |-> w, h |-> h,
                 b |-> b, opaque |-> opaque],
                IF opaque
                THEN drawBitmapBg(x, y, bitmap, w, h, DrawColor, 0)
                ELSE drawBitmap(x, y, bitmap, w, h, DrawColor))

DoDrawChar ==
  /\ pc = "idle"
  /\ \E x \in CharCoord, y \in CharCoord, glyph \in Glyphs,
        bg \in {0, DrawColor}, size \in TextSizes :
       Draws([op |-> "drawChar", x |-> x, y |-> y, glyph |-> glyph,
              bg |-> bg, size |-> size],
             drawChar(x, y, glyph, DrawColor, bg, size))

\* color565 sends nothing; call holds what it returns
DoColor565 ==
  /\ pc = "idle"
  /\ kind = "tft"
  /\ \E r \in Channel, g \in Channel, b \in Channel :
       Draws([op |-> "color565", r |-> r, g |-> g, b |-> b,
              ret |-> color565(r, g, b)],
             <<>>)

\* writeColor on the hardware sink
DoWriteColor ==
  /\ pc = "idle"
  /\ kind = "tft"
  /\ \E color \in Colors, len \in LenArgs :
       Draws([op |-> "writeColor", color |-> color, len |-> len],
             writeColor(color, len))

Next ==
  \/ setRotation
  \/ DoFillRect
  \/ DoFillRectEdge
  \/ DoFillScreen
  \/ DoDrawPixel
  \/ DoDrawFastHLine
  \/ DoDrawFastVLine
  \/ DoDrawLine
  \/ DoWriteLine
  \/ DoWriteLineEdge
  \/ DoDrawRect
  \/ DoDrawTriangle
  \/ DoDrawRGBBitmap
  \/ DoDrawRGBBitmapEdge
  \/ DoDrawCircle
  \/ DoDrawCircleHelper
  \/ DoFillCircleHelper
  \/ DoFillCircle
  \/ DoDrawRoundRect
  \/ DoFillRoundRect
  \/ DoFillTriangle
  \/ DoFillTriangleEdge
  \/ DoDrawBitmap
  \/ DoDrawChar
  \/ DoWriteColor
  \/ DoColor565
  \/ Return

Spec == Init /\ [][Next]_vars

(***************************************************************************)
(* The offscreen canvases and their buffers. A heap h is the buffer        *)
(* pointer (null or not), the cells it points at, indexed from 0, and      *)
(* whether an access fell outside them.                                    *)
(***************************************************************************)

\* buffer[i] = f(buffer[i]) resp. buffer[i] = v
Store(h, i, v) ==
  IF h.null \/ i \notin DOMAIN h.mem THEN [h EXCEPT !.fault = TRUE]
  ELSE [h EXCEPT !.mem[i] = v]

\* memset(buffer + start, v, n) with n a size_t: a negative n is huge
MemSet(h, start, n, v) ==
  LET cells == IF n < 0 THEN {i \in DOMAIN h.mem : i >= start}
               ELSE start..(start + n - 1)
  IN [null |-> h.null,
      mem |-> [i \in DOMAIN h.mem |-> IF i \in cells THEN v ELSE h.mem[i]],
      fault |-> h.fault \/ n < 0 \/ ~(cells \subseteq DOMAIN h.mem)]

\* mutant: rotation 2 mirrors about WIDTH and HEIGHT instead of the last cell
GFXcanvas1_drawPixel_Mirror(h, x, y, color) ==
  IF h.null THEN h ELSE
  IF (x < 0) \/ (y < 0) \/ (x >= _width) \/ (y >= _height) THEN h ELSE
  LET xr == CASE rotation = 1 -> I16(WIDTH - 1 - y)
              [] rotation = 2 -> I16(WIDTH - x)
              [] rotation = 3 -> y
              [] OTHER -> x
      yr == CASE rotation = 1 -> x
              [] rotation = 2 -> I16(HEIGHT - y)
              [] rotation = 3 -> I16(HEIGHT - 1 - x)
              [] OTHER -> y
      i == (xr \div 8) + yr * ((WIDTH + 7) \div 8)
      m == 128 \div (2 ^ (xr % 8))
  IN IF i \notin DOMAIN h.mem THEN [h EXCEPT !.fault = TRUE]
     ELSE Store(h, i, IF color # 0 THEN OrMask(h.mem[i], m)
                      ELSE AndNotMask(h.mem[i], m))

\* mutant: a row of the 1-bit canvas is WIDTH / 8 bytes, rounded down
GFXcanvas1_drawPixel_ShortRow(h, x, y, color) ==
  IF h.null THEN h ELSE
  IF (x < 0) \/ (y < 0) \/ (x >= _width) \/ (y >= _height) THEN h ELSE
  LET xr == CASE rotation = 1 -> I16(WIDTH - 1 - y)
              [] rotation = 2 -> I16(WIDTH - 1 - x)
              [] rotation = 3 -> y
              [] OTHER -> x
      yr == CASE rotation = 1 -> x
              [] rotation = 2 -> I16(HEIGHT - 1 - y)
              [] rotation = 3 -> I16(HEIGHT - 1 - x)
              [] OTHER -> y
      i == (xr \div 8) + yr * (WIDTH \div 8)
      m == 128 \div (2 ^ (xr % 8))
  IN IF i \notin DOMAIN h.mem THEN [h EXCEPT !.fault = TRUE]
     ELSE Store(h, i, IF color # 0 THEN OrMask(h.mem[i], m)
                      ELSE AndNotMask(h.mem[i], m))

GFXcanvas1_drawPixel(h, x, y, color) ==
  IF h.null THEN h ELSE
  IF (x < 0) \/ (y < 0) \/ (x >= _width) \/ (y >= _height) THEN h ELSE
  LET xr == CASE rotation = 1 -> I16(WIDTH - 1 - y)
              [] rotation = 2 -> I16(WIDTH - 1 - x)
              [] rotation = 3 -> y
              [] OTHER -> x
      yr == CASE rotation = 1 -> x
              [] rotation = 2 -> I16(HEIGHT - 1 - y)
              [] rotation = 3 -> I16(HEIGHT - 1 - x)
              [] OTHER -> y
      i == (xr \div 8) + yr * ((WIDTH + 7) \div 8)
      m == 128 \div (2 ^ (xr % 8))
  IN IF i \notin DOMAIN h.mem THEN [h EXCEPT !.fault = TRUE]
     ELSE Store(h, i, IF color # 0 THEN OrMask(h.mem[i], m)
                      ELSE AndNotMask(h.mem[i], m))

\* mutant: the color is handed to memset as it is
GFXcanvas1_fillScreen_Raw(h, color) ==
  IF h.null THEN h
  ELSE MemSet(h, 0, ((WIDTH + 7) \div 8) * HEIGHT, color % 256)

GFXcanvas1_fillScreen(h, color) ==
  IF h.null THEN h
  ELSE MemSet(h, 0, ((WIDTH + 7) \div 8) * HEIGHT,
              IF color # 0 THEN 255 ELSE 0)

GFXcanvas8_drawPixel(h, x, y, color) ==
  IF h.null THEN h ELSE
  IF (x < 0) \/ (y < 0) \/ (x >= _width) \/ (y >= _height) THEN h ELSE
  LET xr == CASE rotation = 1 -> I16(WIDTH - 1 - y)
              [] rotation = 2 -> I16(WIDTH - 1 - x)
              [] rotation = 3 -> y
              [] OTHER -> x
      yr == CASE rotation = 1 -> x
              [] rotation = 2 -> I16(HEIGHT - 1 - y)
              [] rotation = 3 -> I16(HEIGHT - 1 - x)
              [] OTHER -> y
  IN Store(h, xr + yr * WIDTH, color % 256)

GFXcanvas8_fillScreen(h, color) ==
  IF h.null THEN h
  ELSE MemSet(h, 0, WIDTH * HEIGHT, color % 256)

\* mutant: the buffer is not tested before it is written
GFXcanvas8_writeFastHLine_NoNullTest(h, x, y, w, color) ==
  IF (x >= _width) \/ (y < 0) \/ (y >= _height) THEN h ELSE
  LET x2 == I16(x + w - 1)
  IN IF x2 < 0 THEN h ELSE
  LET xa == IF x < 0 THEN 0 ELSE x
      wa == IF x < 0 THEN I16(x2 + 1) ELSE w
      wb == IF x2 >= _width THEN I16(_width - xa) ELSE wa
      xr == CASE rotation = 1 -> I16(WIDTH - 1 - y)
              [] rotation = 2 -> I16(WIDTH - 1 - xa)
              [] rotation = 3 -> y
              [] OTHER -> xa
      yr == CASE rotation = 1 -> xa
              [] rotation = 2 -> I16(HEIGHT - 1 - y)
              [] rotation = 3 -> I16(HEIGHT - 1 - xa)
              [] OTHER -> y
  IN IF h.null THEN [h EXCEPT !.fault = TRUE]
     ELSE MemSet(h, yr * WIDTH + xr, wb, color % 256)

GFXcanvas8_writeFastHLine(h, x, y, w, color) ==
  IF h.null THEN h ELSE
  IF (x >= _width) \/ (y < 0) \/ (y >= _height) THEN h ELSE
  LET x2 == I16(x + w - 1)
  IN IF x2 < 0 THEN h ELSE
  LET xa == IF x < 0 THEN 0 ELSE x
      wa == IF x < 0 THEN I16(x2 + 1) ELSE w
      wb == IF x2 >= _width THEN I16(_width - xa) ELSE wa
      xr == CASE rotation = 1 -> I16(WIDTH - 1 - y)
              [] rotation = 2 -> I16(WIDTH - 1 - xa)
              [] rotation = 3 -> y
              [] OTHER -> xa
      yr == CASE rotation = 1 -> xa
              [] rotation = 2 -> I16(HEIGHT - 1 - y)
              [] rotation = 3 -> I16(HEIGHT - 1 - xa)
              [] OTHER -> y
  IN MemSet(h, yr * WIDTH + xr, wb, color % 256)

GFXcanvas16_drawPixel(h, x, y, color) ==
  IF h.null THEN h ELSE
  IF (x < 0) \/ (y < 0) \/ (x >= _width) \/ (y >= _height) THEN h ELSE
  LET xr == CASE rotation = 1 -> I16(WIDTH - 1 - y)
              [] rotation = 2 -> I16(WIDTH - 1 - x)
              [] rotation = 3 -> y
              [] OTHER -> x
      yr == CASE rotation = 1 -> x
              [] rotation = 2 -> I16(HEIGHT - 1 - y)
              [] rotation = 3 -> I16(HEIGHT - 1 - x)
              [] OTHER -> y
  IN Store(h, xr + yr * WIDTH, color)

\* a byte fill when the two bytes of the color are equal, else word by word
GFXcanvas16_fillScreen(h, color) ==
  IF h.null THEN h ELSE
  LET hi == color \div 256
      lo == color % 256
  IN IF hi = lo THEN MemSet(h, 0, WIDTH * HEIGHT, lo * 256 + lo)
     ELSE MemSet(h, 0, WIDTH * HEIGHT, color)

\* the virtual drawPixel and fillScreen of the canvas at hand
Buffer_drawPixel(h, x, y, color) ==
  CASE kind = "canvas1" -> GFXcanvas1_drawPixel(h, x, y, color)
    [] kind = "canvas8" -> GFXcanvas8_drawPixel(h, x, y, color)
    [] kind = "canvas16" -> GFXcanvas16_drawPixel(h, x, y, color)

Buffer_fillScreen(h, color) ==
  CASE kind = "canvas1" -> GFXcanvas1_fillScreen(h, color)
    [] kind = "canvas8" -> GFXcanvas8_fillScreen(h, color)
    [] kind = "canvas16" -> GFXcanvas16_fillScreen(h, color)

\* the drawPixel calls of a rasterizer operation, made on the buffer in turn
\* the events lo..hi of the log, the first half before the second
RECURSIVE ApplyRange(_, _, _, _)
ApplyRange(h, l, lo, hi) ==
  IF lo > hi THEN h
  ELSE IF lo = hi
  THEN (IF l[lo].t = "px" THEN Buffer_drawPixel(h, l[lo].x, l[lo].y, l[lo].c)
        ELSE h)
  ELSE ApplyRange(ApplyRange(h, l, lo, (lo + hi) \div 2), l,
                  (lo + hi) \div 2 + 1, hi)

ApplyLog(h, l) == ApplyRange(h, l, 1, Len(l))

\* GFXcanvas1::GFXcanvas1, GFXcanvas8::GFXcanvas8, GFXcanvas16::GFXcanvas16:
\* the buffer is zeroed, or absent when the allocation failed
BufferSize(k, w, h) ==
  IF k = "canvas1" THEN ((w + 7) \div 8) * h ELSE w * h

CanvasInit ==
  /\ kind \in {"canvas1", "canvas8", "canvas16"}
  /\ WIDTH = CanvasW
  /\ HEIGHT = CanvasH
  /\ _width = CanvasW
  /\ _height = CanvasH
  /\ rotation = 0
  /\ pc = "idle"
  /\ call = NoCall
  /\ log = <<>>
  /\ buffer \in {NoBuffer,
                 [null |-> FALSE,
                  mem |-> [i \in 0..(BufferSize(kind, CanvasW, CanvasH) - 1)
                             |-> 0]]}
  /\ fault = FALSE
  /\ ndraws = 0
  /\ text = NoText
  /\ button = FreshButton(0)

Heap == [null |-> buffer.null, mem |-> buffer.mem, fault |-> fault]

\* a drawing call on a canvas, which leaves the heap as h; n is the number of
\* drawing calls since the buffer was last filled
CanvasDraws(c, events, h, n) ==
  /\ pc' = "done"
  /\ call' = c
  /\ log' = events
  /\ buffer' = [null |-> h.null, mem |-> h.mem]
  /\ fault' = h.fault
  /\ ndraws' = n
  /\ UNCHANGED <<kind, WIDTH, HEIGHT, _width, _height, rotation, text,
                 button>>

CanvasDrawPixel ==
  /\ pc = "idle"
  /\ ndraws < MaxDraws
  /\ \E x \in -1.._width, y \in -1.._height, c \in Colors :
       CanvasDraws([op |-> "drawPixel", x |-> x, y |-> y, c |-> c,
                    before |-> Heap],
                   drawPixel(x, y, c),
                   Buffer_drawPixel(Heap, x, y, c), ndraws + 1)

CanvasFillScreen ==
  /\ pc = "idle"
  /\ \E c \in Colors :
       CanvasDraws([op |-> "fillScreen", c |-> c, before |-> Heap], <<>>,
                   Buffer_fillScreen(Heap, c), 0)

CanvasWriteFastHLine ==
  /\ pc = "idle"
  /\ ndraws < MaxDraws
  /\ kind = "canvas8"
  /\ \E x \in -1.._width, y \in -1.._height, w \in {-1, 0, 1, 2, _width + 2} :
       CanvasDraws([op |-> "writeFastHLine", x |-> x, y |-> y, w |-> w,
                    c |-> DrawColor, before |-> Heap],
                   <<>>,
                   GFXcanvas8_writeFastHLine(Heap, x, y, w, DrawColor),
                   ndraws + 1)

\* Adafruit_GFX::drawLine, inherited by the canvases
CanvasDrawLine ==
  /\ pc = "idle"
  /\ ndraws < MaxDraws
  /\ \E x0 \in {-1, 1}, y0 \in {0, _height - 1}, x1 \in {1, _width - 1},
        y1 \in {0, _height} :
       CanvasDraws([op |-> "drawLine", x0 |-> x0, y0 |-> y0, x1 |-> x1,
                    y1 |-> y1, c |-> DrawColor],
                   drawLine(x0, y0, x1, y1, DrawColor),
                   ApplyLog(Heap, drawLine(x0, y0, x1, y1, DrawColor)),
                   ndraws + 1)

CanvasNext ==
  \/ setRotation
  \/ CanvasDrawPixel
  \/ CanvasFillScreen
  \/ CanvasWriteFastHLine
  \/ CanvasDrawLine
  \/ Return

SpecCanvas == CanvasInit /\ [][CanvasNext]_vars
(***************************************************************************)
(* What a log shows.                                                       *)
(***************************************************************************)
(* Printing text on a canvas. The text settings are made before a string   *)
(* is printed; write is then called for one character after the other, and *)
(* call holds the last character written and the cursor before it.         *)
(***************************************************************************)
TextInit ==
  /\ kind = "canvas"
  /\ WIDTH = TextW
  /\ HEIGHT = TextH
  /\ _width = TextW
  /\ _height = TextH
  /\ rotation = 0
  /\ pc = "idle"
  /\ call = NoCall
  /\ log = <<>>
  /\ buffer = NoBuffer
  /\ fault = FALSE
  /\ ndraws = 0
  /\ text = NoText
  /\ button = FreshButton(0)

\* a setter of the text fields, which leaves them as t
TextSet(t) ==
  /\ text' = [t EXCEPT !.x0 = t.cursor_x, !.y0 = t.cursor_y]
  /\ UNCHANGED <<kind, WIDTH, HEIGHT, _width, _height, rotation, pc, call, log,
                 buffer, fault, ndraws, button>>

setCursor ==
  /\ pc = "idle"
  /\ text.str = <<>>
  /\ \E x \in TextStartX, y \in TextStartY :
       TextSet([text EXCEPT !.cursor_x = x, !.cursor_y = y])

setTextSize ==
  /\ pc = "idle"
  /\ text.str = <<>>
  /\ \E sz \in 0..2 :
       TextSet([text EXCEPT !.textsize = IF sz > 0 THEN sz ELSE 1])

setTextWrap ==
  /\ pc = "idle"
  /\ text.str = <<>>
  /\ \E w \in BOOLEAN : TextSet([text EXCEPT !.wrap = w])

\* setTextColor(c, b); the constructor leaves the background transparent
setTextColor ==
  /\ pc = "idle"
  /\ text.str = <<>>
  /\ \E b \in {0} :
       TextSet([text EXCEPT !.textcolor = DrawColor, !.textbgcolor = b])

setFont ==
  /\ pc = "idle"
  /\ text.str = <<>>
  /\ \E f \in BOOLEAN :
       TextSet([text EXCEPT
                  !.gfxFont = f,
                  !.cursor_y = IF f /\ ~text.gfxFont THEN I16(text.cursor_y + 6)
                               ELSE IF ~f /\ text.gfxFont
                               THEN I16(text.cursor_y - 6)
                               ELSE text.cursor_y])

\* the screen cells a log writes
WrittenCells(l) ==
  UNION {IF l[i].t = "px" /\ l[i].hit THEN {<<l[i].x, l[i].y>>}
         ELSE IF l[i].t = "win" THEN WindowCells(l[i])
         ELSE {} : i \in DOMAIN l}

DoWrite ==
  /\ pc = "idle"
  /\ Len(text.str) < MaxText
  /\ \E c \in Chars :
       LET r == write(text, c)
       IN /\ text' = [text EXCEPT !.cursor_x = r.cursor_x,
                                  !.cursor_y = r.cursor_y,
                                  !.str = Append(text.str, c),
                                  !.drawn = text.drawn \cup WrittenCells(r.log)]
          /\ call' = [op |-> "write", c |-> c, ret |-> r.ret,
                      cursor_x |-> text.cursor_x, cursor_y |-> text.cursor_y]
          /\ log' = r.log
          /\ UNCHANGED <<kind, WIDTH, HEIGHT, _width, _height, rotation, pc,
                         buffer, fault, ndraws, button>>

TextNext ==
  \/ setCursor
  \/ setTextSize
  \/ setTextWrap
  \/ setTextColor
  \/ setFont
  \/ DoWrite

SpecText == TextInit /\ [][TextNext]_vars

(***************************************************************************)
(* A button on a canvas: it is constructed, initialised, pressed, queried  *)
(* and drawn. call holds the last operation and what it returned.          *)
(***************************************************************************)
ButtonInit ==
  /\ kind = "canvas"
  /\ WIDTH = TextW
  /\ HEIGHT = TextH
  /\ _width = TextW
  /\ _height = TextH
  /\ rotation = 0
  /\ pc = "idle"
  /\ call = NoCall
  /\ log = <<>>
  /\ buffer = NoBuffer
  /\ fault = FALSE
  /\ ndraws = 0
  /\ text = NoText
  /\ button \in {FreshButton(g) : g \in LabelGarbage}

\* an operation of the button that draws nothing
ButtonOp(c, b) ==
  /\ pc = "idle"
  /\ call' = c
  /\ button' = b
  /\ log' = <<>>
  /\ UNCHANGED <<kind, WIDTH, HEIGHT, _width, _height, rotation, pc, buffer,
                 fault, ndraws, text>>

\* a button is initialised once
DoInitButtonUL ==
  /\ pc = "idle"
  /\ ~button._gfx
  /\ \E w \in {TextW - 2}, label \in Labels :
       ButtonOp([op |-> "initButtonUL", label |-> label],
                initButtonUL(button, 1, 1, w, TextH - 2, DrawColor, 0, 65535,
                             label, 1))

DoInitButton ==
  /\ pc = "idle"
  /\ ~button._gfx
  /\ \E label \in Labels :
       ButtonOp([op |-> "initButton", label |-> label],
                initButton(button, TextW \div 2, TextH \div 2, TextW - 3,
                           TextH - 3, DrawColor, 0, 65535, label, 1))

DoPress ==
  /\ pc = "idle"
  /\ \E p \in BOOLEAN :
       ButtonOp([op |-> "press", p |-> p, before |-> button],
                press(button, p))

DoIsPressed ==
  /\ pc = "idle"
  /\ ButtonOp([op |-> "isPressed", ret |-> isPressed(button),
               before |-> button], button)

DoJustPressed ==
  /\ pc = "idle"
  /\ ButtonOp([op |-> "justPressed", ret |-> justPressed(button),
               before |-> button], button)

DoJustReleased ==
  /\ pc = "idle"
  /\ ButtonOp([op |-> "justReleased", ret |-> justReleased(button),
               before |-> button], button)

DoContains ==
  /\ pc = "idle"
  /\ button._gfx
  /\ \E x \in {0, TextW - 2} :
       ButtonOp([op |-> "contains", x |-> x, y |-> 1,
                 ret |-> contains(button, x, 1), before |-> button], button)

\* drawButton on an initialised button. Without a NUL in _label, strlen and
\* print read past the array: what lies there is any bytes, and nothing is
\* drawn after that
DoDrawButton ==
  /\ pc = "idle"
  /\ button._gfx
  /\ ~fault
  /\ \E inverted \in BOOLEAN, behind \in {<<>>, <<88>>} :
       LET over == ~Terminated(button._label)
           str == IF over THEN UpToNul(button._label, 1) \o behind
                  ELSE UpToNul(button._label, 1)
           d == drawButton(button, text, inverted, str)
       IN /\ (~over => behind = <<>>)
          /\ call' = [op |-> "drawButton", inverted |-> inverted,
                      strlen |-> Len(str), over |-> over]
          /\ log' = d.log
          /\ text' = d.t
          /\ fault' = (fault \/ over)
          /\ UNCHANGED <<kind, WIDTH, HEIGHT, _width, _height, rotation, pc,
                         buffer, ndraws, button>>

ButtonNext ==
  \/ DoInitButtonUL
  \/ DoInitButton
  \/ DoPress
  \/ DoIsPressed
  \/ DoJustPressed
  \/ DoJustReleased
  \/ DoContains
  \/ DoDrawButton

SpecButton == ButtonInit /\ [][ButtonNext]_vars

(***************************************************************************)
CountEv(l, t) == Cardinality({i \in DOMAIN l : l[i].t = t})

\* pixels that reached the sink: words on the bus, accepted canvas pixels
\* the count is taken over the halves of the log, to keep the nesting flat
RECURSIVE PixelsIn(_, _, _)
PixelsIn(l, lo, hi) ==
  IF lo > hi THEN 0
  ELSE IF lo = hi
  THEN CASE l[lo].t = "w16" -> 1
         [] l[lo].t = "xfer" -> l[lo].n
         [] l[lo].t = "rows" -> l[lo].n * U32(l[lo].len)
         [] l[lo].t = "px" -> (IF l[lo].hit THEN 1 ELSE 0)
         [] OTHER -> 0
  ELSE PixelsIn(l, lo, (lo + hi) \div 2)
       + PixelsIn(l, (lo + hi) \div 2 + 1, hi)

PixelsSent(l) == PixelsIn(l, 1, Len(l))

\* the pixels [lo, hi] a span of extent e from origin o covers; a negative
\* extent runs backward from the origin
SpanLo(o, e) == IF e < 0 THEN o + e + 1 ELSE o
SpanHi(o, e) == IF e < 0 THEN o ELSE o + e - 1
Max(a, b) == IF a > b THEN a ELSE b
Min(a, b) == IF a < b THEN a ELSE b

\* the rectangle of the call has no pixel on the screen
RectOutside(c) ==
  \/ c.w = 0
  \/ c.h = 0
  \/ SpanHi(c.x, c.w) < 0
  \/ SpanLo(c.x, c.w) >= _width
  \/ SpanHi(c.y, c.h) < 0
  \/ SpanLo(c.y, c.h) >= _height

Done(op) == pc = "done" /\ call.op = op

(***************************************************************************)
(* C1: a fillRect whose rectangle lies fully outside the screen writes no  *)
(* pixel and never calls startWrite, on the hardware sink and in the       *)
(* generic Adafruit_GFX::fillRect alike.                                   *)
(***************************************************************************)
C1_FillRectOutside ==
  (Done("fillRect") /\ RectOutside(call))
    => (PixelsSent(log) = 0 /\ CountEv(log, "start") = 0)

(***************************************************************************)
(* C2: Adafruit_SPITFT::fillRect with w > 0, h > 0 and a rectangle that    *)
(* meets the screen sets the address window to the geometric intersection  *)
(* of the rectangle with the screen and sends exactly its w' * h' pixels,  *)
(* inside one transaction.                                                 *)
(***************************************************************************)
C2_FillRectIntersection ==
  (Done("fillRect") /\ kind = "tft" /\ call.w > 0 /\ call.h > 0
     /\ ~RectOutside(call))
    => LET ix == Max(call.x, 0)
           iy == Max(call.y, 0)
           iw == Min(call.x + call.w, _width) - ix
           ih == Min(call.y + call.h, _height) - iy
       IN /\ Len(log) >= 3
          /\ log[1] = EvStart
          /\ log[2] = EvWin(ix, iy, iw, ih)
          /\ log[Len(log)] = EvEnd
          /\ CountEv(log, "win") = 1
          /\ PixelsSent(log) = iw * ih

\* the rectangle overhangs the left and the right edge, and the top
C2_Witness ==
  /\ Done("fillRect") /\ kind = "tft"
  /\ call.x < 0 /\ call.x + call.w > _width
  /\ call.y < 0 /\ call.h > 0 /\ call.y + call.h > 0
  /\ PixelsSent(log) > 0
(***************************************************************************)
(* Transactions in a log.                                                  *)
(***************************************************************************)
\* the open startWrite calls along the events lo..hi of a log, counted from
\* 0: at the end (net), at most (max) and at least (min) after any event,
\* and at least before an event that is neither startWrite nor endWrite
\* (bare; NoBare when there is none). The count is taken over the halves of
\* the log, to keep the nesting flat.
NoBare == 1000 * 1000
RECURSIVE LogDepth(_, _, _)
LogDepth(l, lo, hi) ==
  IF lo > hi THEN [net |-> 0, max |-> 0, min |-> 0, bare |-> NoBare]
  ELSE IF lo = hi
  THEN CASE l[lo].t = "start" ->
              [net |-> 1, max |-> 1, min |-> 0, bare |-> NoBare]
         [] l[lo].t = "end" ->
              [net |-> -1, max |-> 0, min |-> -1, bare |-> NoBare]
         [] OTHER -> [net |-> 0, max |-> 0, min |-> 0, bare |-> 0]
  ELSE LET a == LogDepth(l, lo, (lo + hi) \div 2)
           b == LogDepth(l, (lo + hi) \div 2 + 1, hi)
       IN [net |-> a.net + b.net,
           max |-> Max(a.max, a.net + b.max),
           min |-> Min(a.min, a.net + b.min),
           bare |-> Min(a.bare, a.net + b.bare)]

\* the greatest number of open startWrite calls, from d open ones
MaxDepth(l, d) == d + LogDepth(l, 1, Len(l)).max

\* every endWrite closes an open startWrite and none is left open
Balanced(l, d) ==
  /\ d + LogDepth(l, 1, Len(l)).min >= 0
  /\ d + LogDepth(l, 1, Len(l)).net = 0

DrawOps ==
  {"drawLine", "drawTriangle", "drawRect", "drawCircle", "fillCircle",
   "fillTriangle", "drawRoundRect", "fillRoundRect", "drawBitmap", "drawChar"}
HardwareDrawOps ==
  {"drawPixel", "fillRect", "drawFastHLine", "drawFastVLine", "drawRGBBitmap"}

WindowInBounds(e) ==
  /\ 0 <= e.x /\ 0 <= e.y /\ e.w > 0 /\ e.h > 0
  /\ e.x + e.w <= _width
  /\ e.y + e.h <= _height

C5_AddrWindowInBounds ==
  (pc = "done" /\ kind = "tft")
    => \A i \in DOMAIN log : log[i].t = "win" => WindowInBounds(log[i])

(***************************************************************************)
(* C6: a shape of zero extent writes no pixel: drawFastHLine and           *)
(* drawFastVLine of length 0 and fillRect with w = 0 or h = 0, in the      *)
(* Adafruit_SPITFT overrides and in the generic Adafruit_GFX               *)
(* implementations the canvases use.                                       *)
(***************************************************************************)
C6_ZeroExtentNoPixel ==
  (\/ Done("drawFastHLine") /\ call.w = 0
   \/ Done("drawFastVLine") /\ call.h = 0
   \/ Done("fillRect") /\ (call.w = 0 \/ call.h = 0))
    => PixelsSent(log) = 0

(***************************************************************************)
(* C8: rotation is 0 after construction and (r & 3) after setRotation(r),  *)
(* no other operation changes it; (_width, _height) is (WIDTH, HEIGHT)     *)
(* when rotation is even and (HEIGHT, WIDTH) when it is odd; WIDTH and     *)
(* HEIGHT never change.                                                    *)
(***************************************************************************)
DimsMatchRotation ==
  /\ rotation \in 0..3
  /\ _width = (IF rotation \in {0, 2} THEN WIDTH ELSE HEIGHT)
  /\ _height = (IF rotation \in {0, 2} THEN HEIGHT ELSE WIDTH)

C8_RotationDims ==
  /\ rotation = 0 /\ DimsMatchRotation
  /\ [][/\ DimsMatchRotation'
        /\ WIDTH' = WIDTH /\ HEIGHT' = HEIGHT
        /\ rotation' = (IF pc = "idle" /\ call'.op = "setRotation"
                        THEN call'.r % 4 ELSE rotation)]_vars

\* setRotation(255) has turned the screen to rotation 3
C8_Witness ==
  /\ Done("setRotation") /\ call.r = 255 /\ rotation = 3
  /\ _width = HEIGHT /\ _height = WIDTH /\ WIDTH # HEIGHT

(***************************************************************************)
(* C10: drawLine(x0, y0, x1, y1) and drawLine(x1, y1, x0, y0) touch the    *)
(* same set of pixels: the same drawPixel requests reach a canvas, and     *)
(* the same cells of the hardware sink are covered by address windows.     *)
(***************************************************************************)
Touched(l) ==
  UNION {IF l[i].t = "win" THEN WindowCells(l[i])
         ELSE IF l[i].t = "px" THEN {<<l[i].x, l[i].y>>}
         ELSE {} : i \in DOMAIN l}

C10_LineSymmetry ==
  Done("drawLine")
    => Touched(log)
         = Touched(drawLine(call.x1, call.y1, call.x0, call.y0, DrawColor))

\* a steep line given from its far end, partly on the screen
C10_Witness ==
  /\ Done("drawLine")
  /\ call.x0 > call.x1 /\ call.y0 > call.y1 + 1
  /\ call.y0 - call.y1 > call.x0 - call.x1
  /\ Cardinality(Touched(log)) >= 3
(***************************************************************************)
(* Reading a canvas buffer as a row-major raster of raw size WIDTH x       *)
(* HEIGHT: 8 pixels to the byte, most significant bit first, rows padded   *)
(* to whole bytes (1 bit), one byte (8 bit) or one word (16 bit) a pixel.  *)
(***************************************************************************)
RawRead(x, y) ==
  IF kind = "canvas1"
  THEN Bit(buffer.mem[(x \div 8) + y * ((WIDTH + 7) \div 8)],
           2 ^ (7 - (x % 8)))
  ELSE buffer.mem[x + y * WIDTH]

\* what a pixel of the color reads back as
StoredValue(c) ==
  CASE kind = "canvas1" -> (IF c # 0 THEN 1 ELSE 0)
    [] kind = "canvas8" -> c % 256
    [] kind = "canvas16" -> c

(***************************************************************************)
(* C7: on a canvas whose buffer is absent, drawPixel, fillScreen, the      *)
(* 8-bit canvas's writeFastHLine and the operations built on them change   *)
(* nothing and access no memory, at every rotation and for every argument. *)
(***************************************************************************)
C7_NullBufferNoOp ==
  buffer.null => (buffer = NoBuffer /\ ~fault)

\* a span was written to an 8-bit canvas that has no buffer, turned by 90
C7_Witness ==
  /\ buffer.null /\ Done("writeFastHLine") /\ rotation = 1
  /\ call.x \in 0..(_width - 1) /\ call.y \in 0..(_height - 1) /\ call.w > 0

(***************************************************************************)
(* C9: for every logical position (x, y) of the raw area, drawPixel(x, y,  *)
(* c) at rotation 0 stores the value in raw cell (x, y), and at rotation 2 *)
(* in raw cell (WIDTH-1-x, HEIGHT-1-y): the two raw reads are equal.       *)
(***************************************************************************)
C9_RotationRoundTrip ==
  (Done("drawPixel") /\ ~buffer.null
     /\ call.x \in 0..(WIDTH - 1) /\ call.y \in 0..(HEIGHT - 1))
    => /\ rotation = 0 => RawRead(call.x, call.y) = StoredValue(call.c)
       /\ rotation = 2
            => RawRead(WIDTH - 1 - call.x, HEIGHT - 1 - call.y)
                 = StoredValue(call.c)

\* a pixel set at rotation 2 on the 1-bit canvas, in the second byte of a row
C9_Witness ==
  /\ Done("drawPixel") /\ ~buffer.null /\ kind = "canvas1" /\ rotation = 2
  /\ call.x = 0 /\ call.y = 0 /\ call.c # 0
  /\ WIDTH > 8
  /\ RawRead(WIDTH - 1, HEIGHT - 1) = 1
(***************************************************************************)
(* C11: for every center (x0, y0) and radius r >= 0 the set of points      *)
(* drawCircle requests is closed under the 8 reflections about the center: *)
(* with (x0+dx, y0+dy) it holds (x0+-dx, y0+-dy) and (x0+-dy, y0+-dx).     *)
(* The requests are read off a canvas, which sees every writePixel call.   *)
(***************************************************************************)
Reflections(x0, y0, p) ==
  LET dx == p[1] - x0
      dy == p[2] - y0
  IN {<<x0 + sx * a, y0 + sy * b>> :
        sx \in {-1, 1}, sy \in {-1, 1}, a \in {dx}, b \in {dy}}
     \cup {<<x0 + sx * b, y0 + sy * a>> :
             sx \in {-1, 1}, sy \in {-1, 1}, a \in {dx}, b \in {dy}}

C11_CircleSymmetry ==
  (Done("drawCircle") /\ kind = "canvas" /\ call.r >= 0)
    => \A p \in Touched(log) :
         Reflections(call.x0, call.y0, p) \subseteq Touched(log)

\* a circle of radius 10, which has points off both axes and diagonals
C11_Witness ==
  /\ Done("drawCircle") /\ kind = "canvas" /\ call.r = 10
  /\ <<call.x0 + 3, call.y0 + 10>> \in Touched(log)
  /\ <<call.x0 - 10, call.y0 - 3>> \in Touched(log)
(***************************************************************************)
(* C12: every pixel written when a string is printed with write() from     *)
(* cursor (x, y) lies inside the rectangle getTextBounds returns for the   *)
(* string at (x, y) with the same settings, for every text size, wrap      *)
(* setting, background and font.                                           *)
(***************************************************************************)
InBox(p, b) ==
  /\ b.x1 <= p[1] /\ p[1] < b.x1 + b.w
  /\ b.y1 <= p[2] /\ p[2] < b.y1 + b.h

C12_TextInsideBounds ==
  \A p \in text.drawn :
    InBox(p, getTextBounds(text, text.str, text.x0, text.y0))

(***************************************************************************)
(* C13: the cursor (x, y) after feeding the characters of a string to      *)
(* charBounds equals (cursor_x, cursor_y) after feeding them to write(),   *)
(* at every step, for every wrap flag, text size, start cursor and font.   *)
(***************************************************************************)
MeasureStart ==
  [x |-> text.x0, y |-> text.y0, minx |-> _width, miny |-> _height,
   maxx |-> -1, maxy |-> -1]

C13_MeasureCursor ==
  LET m == getTextBoundsLoop(text, text.str, MeasureStart)
  IN m.x = text.cursor_x /\ m.y = text.cursor_y
(***************************************************************************)
(* C19: with the built-in font and text size s, write('\n') sets cursor_x  *)
(* to 0 and adds 8 * s to cursor_y; write('\r') changes nothing and draws  *)
(* nothing; for every other character, when wrap is on and                 *)
(* cursor_x + 6 * s > _width the cursor first goes to x = 0 of the next    *)
(* line (cursor_y + 8 * s), then the character is drawn at the cursor and  *)
(* 6 * s is added to cursor_x. write always returns 1.                     *)
(***************************************************************************)
CharCell(cx, cy, s) ==
  {<<i, j>> : i \in cx..(cx + 6 * s - 1), j \in cy..(cy + 8 * s - 1)}

C19_ClassicWrite ==
  (call.op = "write" /\ ~text.gfxFont) =>
    LET s == text.textsize
        brk == text.wrap /\ call.cursor_x + 6 * s > _width
        cx == IF brk THEN 0 ELSE call.cursor_x
        cy == IF brk THEN call.cursor_y + 8 * s ELSE call.cursor_y
    IN /\ call.ret = 1
       /\ call.c = 10 =>
            /\ text.cursor_x = 0
            /\ text.cursor_y = call.cursor_y + 8 * s
       /\ call.c = 13 =>
            /\ text.cursor_x = call.cursor_x
            /\ text.cursor_y = call.cursor_y
            /\ log = <<>>
       /\ call.c \notin {10, 13} =>
            /\ text.cursor_x = cx + 6 * s
            /\ text.cursor_y = cy
            /\ log = drawChar(cx, cy, ClassicGlyph(call.c), text.textcolor,
                              text.textbgcolor, s)
            /\ Touched(log) \subseteq CharCell(cx, cy, s)

\* 'A' written past the right edge with wrap on: drawn on the next line
C19_Witness ==
  /\ call.op = "write"
  /\ ~text.gfxFont
  /\ text.wrap
  /\ call.c = 65
  /\ call.cursor_x + 6 * text.textsize > _width
  /\ text.cursor_x = 6 * text.textsize
  /\ text.cursor_y = call.cursor_y + 8 * text.textsize
  /\ <<2, call.cursor_y + 8 * text.textsize>> \in Touched(log)
(***************************************************************************)
(* C14: fillTriangle with y0 = y1 = y2 emits exactly one writeFastHLine at *)
(* that y, from the least of the three x values and of width               *)
(* max - min + 1, for every ordering of the x values, and then closes the  *)
(* transaction.                                                            *)
(***************************************************************************)
Min3(a, b, c) == Min(a, Min(b, c))
Max3(a, b, c) == Max(a, Max(b, c))

C14_FlatTriangle ==
  (Done("fillTriangle") /\ call.y0 = call.y1 /\ call.y1 = call.y2) =>
    LET lo == Min3(call.x0, call.x1, call.x2)
        hi == Max3(call.x0, call.x1, call.x2)
    IN /\ log = <<EvStart>>
                \o writeFastHLine(lo, call.y0, hi - lo + 1, DrawColor)
                \o <<EvEnd>>
       /\ \A p \in Touched(log) :
            p[2] = call.y0 /\ lo <= p[1] /\ p[1] <= hi
       /\ (call.y0 >= 0 /\ call.y0 < _height) =>
            \A i \in Max(lo, 0)..Min(hi, _width - 1) :
              <<i, call.y0>> \in Touched(log)

\* the middle vertex first, the leftmost last: one window over the row
C14_Witness ==
  /\ Done("fillTriangle")
  /\ kind = "tft"
  /\ rotation = 0
  /\ call.y0 = 1 /\ call.y1 = 1 /\ call.y2 = 1
  /\ call.x0 = 1 /\ call.x1 = ScreenW /\ call.x2 = 0 - Margin
  /\ Len(log) > 2
  /\ log[2] = EvWin(0, 1, ScreenW, 1)
  /\ PixelsSent(log) = ScreenW
(***************************************************************************)
(* C15: on an 8-bit canvas, at every rotation 0..3 and for every x, y and  *)
(* w > 0, writeFastHLine(x, y, w, color) changes exactly the raw cells     *)
(* that the calls drawPixel(x + i, y, color), i = 0..w-1, would change,    *)
(* to the same value, and touches no other memory.                         *)
(***************************************************************************)
RECURSIVE PixelSpan(_, _, _, _, _, _)
PixelSpan(h, x, y, w, i, color) ==
  IF ~(i < w) THEN h
  ELSE PixelSpan(GFXcanvas8_drawPixel(h, I16(x + i), y, color), x, y, w, i + 1,
                 color)

C15_HLineAsPixels ==
  (Done("writeFastHLine") /\ kind = "canvas8" /\ call.w > 0) =>
    Heap = PixelSpan(call.before, call.x, call.y, call.w, 0, call.c)
(***************************************************************************)
(* C16: for every len >= 0, writeColor(color, len) transmits exactly len   *)
(* 16-bit pixel values, each with the bytes of color most significant      *)
(* first, as SPI_WRITE16(color) sends them; for len > 4 it does so in      *)
(* block transfers of at most SPI_BLOCKSIZE pixels, and every buffer entry *)
(* transmitted was written with the byte-swapped color by this call, also  *)
(* when len is a multiple of SPI_BLOCKSIZE and when 4 < len < 32.          *)
(***************************************************************************)
\* the bytes of transfer16(v): most significant first
Bytes16(v) == <<v \div 256, v % 256>>
\* the bytes of a uint16_t entry in memory, which transfer() sends in address
\* order: least significant first on the little-endian target
MemBytes(v) == <<v % 256, v \div 256>>

RECURSIVE EntryBytes(_)
EntryBytes(data) ==
  IF data = <<>> THEN <<>>
  ELSE MemBytes(Head(data)) \o EntryBytes(Tail(data))

\* the bytes a log puts on the bus
RECURSIVE WireBytes(_)
WireBytes(l) ==
  IF l = <<>> THEN <<>>
  ELSE (CASE Head(l).t = "w16" -> Bytes16(Head(l).c)
          [] Head(l).t = "xfer" -> EntryBytes(Head(l).data)
          [] OTHER -> <<>>)
       \o WireBytes(Tail(l))

RECURSIVE Repeat(_, _)
Repeat(bytes, n) == IF n = 0 THEN <<>> ELSE bytes \o Repeat(bytes, n - 1)

Swapped(color) == ((color % 256) * 256) + (color \div 256)

C16_WriteColor ==
  Done("writeColor") =>
    /\ PixelsSent(log) = call.len
    /\ WireBytes(log) = Repeat(Bytes16(call.color), call.len)
    /\ call.len > 4 =>
         \A k \in DOMAIN log :
           /\ log[k].t = "xfer"
           /\ log[k].n <= SPI_BLOCKSIZE
           /\ \A i \in DOMAIN log[k].data :
                log[k].data[i] = Swapped(call.color)

\* two whole blocks and an empty last transfer
C16_Witness ==
  /\ Done("writeColor")
  /\ call.color = DrawColor
  /\ call.len = 2 * SPI_BLOCKSIZE
  /\ Len(log) = 3
  /\ log[1].n = SPI_BLOCKSIZE
  /\ log[3].n = 0
(***************************************************************************)
(* C17: on the hardware sink a negative extent is normalised by shifting   *)
(* the origin backward: for every x, y and w in -32767..-1, fillRect,      *)
(* writeFillRect, drawFastHLine and writeFastHLine emit the same window    *)
(* and pixels as the call with origin x + w + 1 and extent -w; likewise    *)
(* for a negative h, with origin y + h + 1 and extent -h (fillRect,        *)
(* writeFillRect, drawFastVLine, writeFastVLine).                          *)
(***************************************************************************)
NegativeExtent == -32767..-1

C17_NegativeExtent ==
  /\ (Done("fillRect") /\ kind = "tft" /\ call.w \in NegativeExtent) =>
       /\ log = SPITFT_fillRect(call.x + call.w + 1, call.y, 0 - call.w,
                                call.h, DrawColor)
       /\ SPITFT_writeFillRect(call.x, call.y, call.w, call.h, DrawColor)
            = SPITFT_writeFillRect(call.x + call.w + 1, call.y, 0 - call.w,
                                   call.h, DrawColor)
  /\ (Done("fillRect") /\ kind = "tft" /\ call.h \in NegativeExtent) =>
       /\ log = SPITFT_fillRect(call.x, call.y + call.h + 1, call.w,
                                0 - call.h, DrawColor)
       /\ SPITFT_writeFillRect(call.x, call.y, call.w, call.h, DrawColor)
            = SPITFT_writeFillRect(call.x, call.y + call.h + 1, call.w,
                                   0 - call.h, DrawColor)
  /\ (Done("drawFastHLine") /\ kind = "tft" /\ call.w \in NegativeExtent) =>
       /\ log = SPITFT_drawFastHLine(call.x + call.w + 1, call.y, 0 - call.w,
                                     DrawColor)
       /\ SPITFT_writeFastHLine(call.x, call.y, call.w, DrawColor)
            = SPITFT_writeFastHLine(call.x + call.w + 1, call.y, 0 - call.w,
                                    DrawColor)
  /\ (Done("drawFastVLine") /\ kind = "tft" /\ call.h \in NegativeExtent) =>
       /\ log = SPITFT_drawFastVLine(call.x, call.y + call.h + 1, 0 - call.h,
                                     DrawColor)
       /\ SPITFT_writeFastVLine(call.x, call.y, call.h, DrawColor)
            = SPITFT_writeFastVLine(call.x, call.y + call.h + 1, 0 - call.h,
                                    DrawColor)
(***************************************************************************)
(* C18: Adafruit_SPITFT::drawRGBBitmap(x, y, pcolors, w, h) with w > 0 and *)
(* h > 0: when the bitmap is fully off the screen nothing is sent and no   *)
(* transaction opens; otherwise it opens one transaction, sets the address *)
(* window to the intersection of [x, x+w) x [y, y+h) with the screen, and  *)
(* sends, row by row, exactly the source pixels pcolors[j*w + i] whose     *)
(* destination (x+i, y+j) is on the screen, never reading outside the      *)
(* w * h source array.                                                     *)
(***************************************************************************)
\* the indices of pcolors that the rows of a log read, in the order read
RowIndices(e) ==
  [k \in 1..(e.n * e.len) |->
     e.off + ((k - 1) \div e.len) * e.stride + ((k - 1) % e.len)]

C18_BitmapClip ==
  (Done("drawRGBBitmap") /\ call.w > 0 /\ call.h > 0) =>
    LET xlo == Max(call.x, 0)
        xhi == Min(call.x + call.w, _width) - 1
        ylo == Max(call.y, 0)
        yhi == Min(call.y + call.h, _height) - 1
        nx == xhi - xlo + 1
        ny == yhi - ylo + 1
    IN IF xlo > xhi \/ ylo > yhi THEN log = <<>>
       ELSE /\ Len(log) = 4
            /\ log[1] = EvStart
            /\ log[2] = EvWin(xlo, ylo, nx, ny)
            /\ log[3].t = "rows"
            /\ log[4] = EvEnd
            /\ RowIndices(log[3])
                 = [k \in 1..(nx * ny) |->
                      (ylo + ((k - 1) \div nx) - call.y) * call.w
                        + (xlo + ((k - 1) % nx) - call.x)]
            /\ \A k \in 1..(nx * ny) :
                 RowIndices(log[3])[k] \in 0..(call.w * call.h - 1)
(***************************************************************************)
(* C20: color565(r, g, b), for 8-bit r, g and b, returns the 16-bit value  *)
(* whose bits 15..11 are the top 5 bits of r, bits 10..5 the top 6 bits of *)
(* g and bits 4..0 the top 5 bits of b, truncated and not rounded; the     *)
(* result fits in 16 bits.                                                 *)
(***************************************************************************)
C20_Color565 ==
  Done("color565") =>
    /\ call.ret \in 0..65535
    /\ call.ret \div 2048 = call.r \div 8
    /\ (call.ret \div 32) % 64 = call.g \div 4
    /\ call.ret % 32 = call.b \div 8

\* every channel loses low bits: 129 -> 16, 7 -> 1, 251 -> 31
C20_Witness ==
  /\ Done("color565")
  /\ call.r = 129 /\ call.g = 7 /\ call.b = 251
  /\ call.ret = 16 * 2048 + 1 * 32 + 31
(***************************************************************************)
(* C21: on the 1-bit canvas fillScreen(c) sets every byte of the buffer,   *)
(* all ceil(WIDTH / 8) * HEIGHT of them, to 0xFF when c is not zero and to *)
(* 0x00 when c is zero, so fillScreen(1) followed by fillScreen(0) takes   *)
(* every byte from 0xFF to 0x00.                                           *)
(***************************************************************************)
C21_FillScreenBytes ==
  (Done("fillScreen") /\ kind = "canvas1" /\ ~buffer.null) =>
    /\ DOMAIN buffer.mem = 0..(((WIDTH + 7) \div 8) * HEIGHT - 1)
    /\ \A i \in DOMAIN buffer.mem :
         buffer.mem[i] = IF call.c # 0 THEN 255 ELSE 0
    /\ fault = call.before.fault

\* a screen of 0xFF bytes is cleared
C21_Witness ==
  /\ Done("fillScreen") /\ kind = "canvas1" /\ ~buffer.null
  /\ call.c = 0
  /\ WIDTH % 8 # 0
  /\ \A i \in DOMAIN call.before.mem : call.before.mem[i] = 255
  /\ \A i \in DOMAIN buffer.mem : buffer.mem[i] = 0
(***************************************************************************)
(* C22: over any sequence of press(p) calls from the initial state (not    *)
(* pressed), isPressed() equals the last p; justPressed() is true iff the  *)
(* last p was true and the state before that call was false;               *)
(* justReleased() is true iff the last p was false and the state before    *)
(* was true; the two are never both true; the queries change nothing.      *)
(***************************************************************************)
ButtonQueries == {"isPressed", "justPressed", "justReleased"}

C22_ButtonEdges ==
  /\ isPressed(button) = button.p
  /\ justPressed(button) = (button.p /\ ~button.was)
  /\ justReleased(button) = (~button.p /\ button.was)
  /\ ~(justPressed(button) /\ justReleased(button))
  /\ call.op = "press" =>
       /\ button.p = call.p
       /\ button.was = isPressed(call.before)
  /\ call.op \in ButtonQueries =>
       /\ button = call.before
       /\ call.op = "isPressed" => call.ret = button.p
       /\ call.op = "justPressed" => call.ret = (button.p /\ ~button.was)
       /\ call.op = "justReleased" => call.ret = (~button.p /\ button.was)

\* released after having been pressed, and asked
C22_Witness ==
  /\ call.op = "justReleased"
  /\ call.ret
  /\ ~button.p /\ button.was
  /\ ~isPressed(button)

(***************************************************************************)
(* C30: after initButtonUL or initButton with a label of any length the    *)
(* stored label is NUL-terminated within its 10-byte array, so that        *)
(* drawButton's strlen and print read at most 9 characters and never past  *)
(* the array, also for a freshly constructed button whose label array was  *)
(* not otherwise initialised.                                              *)
(***************************************************************************)
C30_LabelTerminated ==
  /\ button._gfx => Terminated(button._label)
  /\ call.op = "drawButton" => (call.strlen <= 9 /\ ~call.over)
  /\ ~fault
(***************************************************************************)
(* C23: every public drawing operation of Adafruit_GFX and Adafruit_SPITFT *)
(* calls endWrite exactly as many times as it called startWrite on every   *)
(* control path, the early return of fillTriangle's flat case and the clip *)
(* reject of drawChar included, so that no transaction is open when it     *)
(* returns, and it sends no pixel to the sink outside its own bracket.     *)
(***************************************************************************)
\* every pixel and window of the log is sent while a transaction is open
Bracketed(l, d) == d + LogDepth(l, 1, Len(l)).bare > 0

\* the draw and fill operations; on a canvas drawPixel is the sink itself
PublicDrawOps ==
  DrawOps \cup {"fillRect", "fillScreen", "drawFastHLine", "drawFastVLine",
                "drawRGBBitmap", "drawCircleHelper", "fillCircleHelper"}
          \cup (IF kind = "tft" THEN {"drawPixel"} ELSE {})

C23_TransactionsClosed ==
  (pc = "done" /\ call.op \in PublicDrawOps) =>
    /\ CountEv(log, "start") = CountEv(log, "end")
    /\ Balanced(log, 0)
    /\ Bracketed(log, 0)
(***************************************************************************)
(* C24: fillCircle(x0, y0, r) for every r >= 0, and fillRoundRect(x, y, w, *)
(* h, r) for every w, h > 0 and r >= 0, never write the same pixel twice:  *)
(* the centre span or centre rectangle and all the vertical spans that     *)
(* fillCircleHelper emits are pairwise disjoint.                           *)
(***************************************************************************)
\* the cells one event of a log writes: a pixel of the canvas, or the cells of
\* an address window of the display
CellsOf(e) ==
  CASE e.t = "px" -> {<<e.x, e.y>>}
    [] e.t = "win" -> WindowCells(e)
    [] OTHER -> {}

NoPixelTwice(l) ==
  \A i \in 1..Len(l) : \A j \in (i + 1)..Len(l) :
     CellsOf(l[i]) \cap CellsOf(l[j]) = {}

C24_NoPixelTwice ==
  /\ (Done("fillCircle") /\ call.r >= 0) => NoPixelTwice(log)
  /\ (Done("fillRoundRect") /\ call.w > 0 /\ call.h > 0 /\ call.r >= 0)
       => NoPixelTwice(log)
C24_Witness ==
  /\ Done("fillCircle")
  /\ kind = "canvas"
  /\ call.r = MaxRadius
  /\ Cardinality(Touched(log)) > 2 * call.r + 1
(***************************************************************************)
(* C25: fillTriangle never divides by zero: it divides by dy01 only on     *)
(* scanlines of a triangle with y0 < y1, by dy12 only with y1 < y2, and by *)
(* dy02 only with y0 < y2 (vertices sorted by y).                          *)
(***************************************************************************)
DividesByZero(l) == \E i \in DOMAIN l : l[i].t = "div0"

C25_NoDivisionByZero == call.op = "fillTriangle" => ~DividesByZero(log)
(***************************************************************************)
(* C26: for a triangle whose vertices are not all on one row, fillTriangle *)
(* emits exactly one horizontal span for every scanline y from the least   *)
(* to the greatest vertex y; every span is at least 1 wide and lies within *)
(* [least vertex x, greatest vertex x], and every vertex is covered by the *)
(* span of its scanline. On the canvas every pixel of a span is one pixel  *)
(* write of the log, clipped or not.                                       *)
(***************************************************************************)
\* the pixel writes of log l on row y
RowWrites(l, y) == {i \in DOMAIN l : l[i].t = "px" /\ l[i].y = y}

OneSpanOn(l, y, lo, hi) ==
  LET cols == {l[i].x : i \in RowWrites(l, y)}
  IN /\ cols # {}
     /\ Cardinality(RowWrites(l, y)) = Cardinality(cols)
     /\ \E a \in cols, b \in cols : cols = a..b
     /\ cols \subseteq lo..hi

C26_OneSpanPerScanline ==
  (/\ call.op = "fillTriangle"
   /\ kind = "canvas"
   /\ ~(call.y0 = call.y1 /\ call.y1 = call.y2))
  => LET ylo == Min3(call.y0, call.y1, call.y2)
         yhi == Max3(call.y0, call.y1, call.y2)
         xlo == Min3(call.x0, call.x1, call.x2)
         xhi == Max3(call.x0, call.x1, call.x2)
     IN /\ \A y \in ylo..yhi : OneSpanOn(log, y, xlo, xhi)
        /\ \A i \in DOMAIN log : log[i].t = "px" => log[i].y \in ylo..yhi
        /\ {<<call.x0, call.y0>>, <<call.x1, call.y1>>, <<call.x2, call.y2>>}
             \subseteq Touched(log)
(***************************************************************************)
(* C27: writeLine(x0, y0, x1, y1) emits exactly max(|dx|, |dy|) + 1 pixel  *)
(* writes, one for each coordinate of the major axis; the first and the    *)
(* last are the two endpoints; consecutive pixels differ by exactly 1 on   *)
(* the major axis and by at most 1 on the minor axis. On the canvas every  *)
(* pixel write is one event of the log, clipped or not.                    *)
(***************************************************************************)
C27_LinePixels ==
  (call.op = "writeLine" /\ kind = "canvas")
  => LET steep == Abs(call.y1 - call.y0) > Abs(call.x1 - call.x0)
         Major(e) == IF steep THEN e.y ELSE e.x
         Minor(e) == IF steep THEN e.x ELSE e.y
         n == Max(Abs(call.x1 - call.x0), Abs(call.y1 - call.y0)) + 1
     IN /\ Len(log) = n
        /\ \A i \in 1..Len(log) : log[i].t = "px"
        /\ {<<log[1].x, log[1].y>>, <<log[n].x, log[n].y>>}
             = {<<call.x0, call.y0>>, <<call.x1, call.y1>>}
        /\ \A i \in 1..(n - 1) :
             /\ Major(log[i + 1]) = Major(log[i]) + 1
             /\ Abs(Minor(log[i + 1]) - Minor(log[i])) <= 1
(***************************************************************************)
(* C28: GFXcanvas8::writeFastHLine never writes outside the buffer         *)
(* [0, WIDTH * HEIGHT), whatever the rotation and whatever x, y and w,     *)
(* spans of w <= 0 and clipped spans included.                             *)
(***************************************************************************)
C28_HLineInsideBuffer ==
  (pc = "done" /\ call.op = "writeFastHLine" /\ ~call.before.fault)
    => ~fault
(***************************************************************************)
(* C29: on each canvas and at each rotation 0..3 the coordinate transform  *)
(* of drawPixel is a bijection from the logical area [0, _width) x         *)
(* [0, _height) onto the raw area [0, WIDTH) x [0, HEIGHT): every accepted *)
(* pixel indexes a cell inside the buffer, distinct logical pixels map to  *)
(* distinct cells, and a drawPixel outside the logical area changes        *)
(* nothing. On the 1-bit canvas a drawPixel changes only the bit           *)
(* 0x80 >> (x & 7) of byte x / 8 + y * ceil(WIDTH / 8), x and y raw.       *)
(***************************************************************************)
\* the bits of a buffer cell: the 16 of a word hold those of a byte
CellBits == {2 ^ k : k \in 0..15}
\* the bits in which two buffers of the same size differ, as <<cell, bit>>
ChangedBits(m1, m2) ==
  {p \in {i \in DOMAIN m1 : m1[i] # m2[i]} \X CellBits :
     Bit(m1[p[1]], p[2]) # Bit(m2[p[1]], p[2])}
\* the bit that stands for the raw pixel (rx, ry): a bit of a byte on the
\* 1-bit canvas, the lowest bit of the pixel's cell on the others
RawCell(rx, ry) ==
  IF kind = "canvas1"
  THEN <<(rx \div 8) + ry * ((WIDTH + 7) \div 8), 2 ^ (7 - (rx % 8))>>
  ELSE <<rx + ry * WIDTH, 1>>
\* the raw pixel of the logical pixel (x, y) at the rotation at hand
RawOf(x, y) ==
  CASE rotation = 0 -> <<x, y>>
    [] rotation = 1 -> <<WIDTH - 1 - y, x>>
    [] rotation = 2 -> <<WIDTH - 1 - x, HEIGHT - 1 - y>>
    [] rotation = 3 -> <<y, HEIGHT - 1 - x>>
LogicalArea == (0..(_width - 1)) \X (0..(_height - 1))
RawArea == (0..(WIDTH - 1)) \X (0..(HEIGHT - 1))
\* the bit that stands for the logical pixel p
LogicalCell(p) == RawCell(RawOf(p[1], p[2])[1], RawOf(p[1], p[2])[2])

\* a drawPixel at p changes nothing but the cell of p (on the 1-bit canvas
\* the bit), which then reads as the color; that cell lies in the raw area
\* and is the cell of no other logical pixel. The two areas have the same
\* number of pixels, so the map is onto as well.
C29_PixelBijection ==
  (pc = "done" /\ call.op = "drawPixel" /\ ~buffer.null /\ ~call.before.fault)
  => LET p == <<call.x, call.y>>
         changed == ChangedBits(call.before.mem, buffer.mem)
     IN /\ ~fault
        /\ p \notin LogicalArea => buffer.mem = call.before.mem
        /\ p \in LogicalArea =>
             /\ RawOf(p[1], p[2]) \in RawArea
             /\ LogicalCell(p)[1] \in DOMAIN buffer.mem
             /\ kind = "canvas1" => changed \subseteq {LogicalCell(p)}
             /\ \A c \in changed : c[1] = LogicalCell(p)[1]
             /\ RawRead(RawOf(p[1], p[2])[1], RawOf(p[1], p[2])[2])
                  = StoredValue(call.c)
             /\ \A q \in LogicalArea : q # p => LogicalCell(q) # LogicalCell(p)
        /\ Cardinality(LogicalArea) = Cardinality(RawArea)

\* a pixel set on the 1-bit canvas turned by 270 degrees, in the second byte
\* of a raw row
C29_Witness ==
  /\ pc = "done" /\ call.op = "drawPixel" /\ ~buffer.null
  /\ kind = "canvas1" /\ rotation = 3
  /\ call.x = 0 /\ call.y = WIDTH - 1 /\ call.c # 0
  /\ WIDTH > 8
  /\ ChangedBits(call.before.mem, buffer.mem)
       = {RawCell(WIDTH - 1, HEIGHT - 1)}
====
